---- MODULE Spec2Model ----
(***************************************************************************)
(* Model of the speculative aggregator state machine of                    *)
(* aptos-move/aptos-aggregator/src/aggregator_extension.rs.                *)
(*                                                                         *)
(* One Aggregator (id, max_value, state) is driven by its four public      *)
(* operations try_add, try_sub, read_last_committed_aggregator_value and   *)
(* read_most_recent_aggregator_value.  The resolver is the capability that *)
(* every operation receives as an argument: a function from the read mode  *)
(* to the answer of the multi-version store at the time of the call.       *)
(*                                                                         *)
(* Spec drives one Aggregator.  DataSpec drives the AggregatorData of one  *)
(* transaction: its aggregators, its snapshots and its id counter, through *)
(* get_aggregator, create_new_aggregator, remove_aggregator_v1, snapshot,  *)
(* generate_id and the operations of the aggregators it holds.             *)
(***************************************************************************)
EXTENDS Integers, Sequences, FiniteSets, TLC

VARIABLES
    agg,        \* the Aggregator: [id, max_value, state]
    lastCall,   \* the operation that produced this state: [op, input, reads, result]
    fetched,    \* the resolver calls of the last operation that took a value in
    shadow,     \* per base b, the re-execution of the try_add/try_sub calls on Data{b}
    lcReads,    \* how many LastCommitted-mode resolver calls returned a value so far
    origin,     \* the AggregatorData method that made the aggregator
    seen,       \* what the calls so far showed: the deltas reached, the deltas
                \* refused and recorded, the Aggregated-mode reads that succeeded
    data,       \* the AggregatorData of a transaction
    lastData,   \* the call on data that produced this state: [op, args, reads, result]
    log,        \* the seed data was made with, the ids generate_id returned and
                \* the number of operations made on the aggregators of data
    db,         \* the table infos stored in the IndexerLookupDB, by handle
    parser,     \* the TableInfoParser of index_with_annotator: [result, pending_on]
    progress,   \* how far index_with_annotator is: [status, parsed]
    lastIndex   \* the call on the indexer that produced this state

aggVars == <<agg, lastCall, fetched, shadow, lcReads, origin, seen>>
dataVars == <<data, lastData, log>>
indexVars == <<db, parser, progress, lastIndex>>
vars == <<agg, lastCall, fetched, shadow, lcReads, origin, seen, data, lastData, log,
          db, parser, progress, lastIndex>>

\* The max_value the aggregator under test is registered with.
MaxValue == 2

-----------------------------------------------------------------------------
(* Result<T, E>, Option<T> *)

Ok(v) == [tag |-> "Ok", value |-> v]
Err(e) == [tag |-> "Err", error |-> e]
IsOk(r) == r.tag = "Ok"
IsErr(r) == r.tag = "Err"

None == [tag |-> "None"]
Some(v) == [tag |-> "Some", value |-> v]

Unit == "unit"

-----------------------------------------------------------------------------
(* bounded_math: SignedU128, BoundedMath, expect_ok, ok_overflow *)

Positive(v) == [sign |-> "Positive", value |-> v]
Negative(v) == [sign |-> "Negative", value |-> v]

\* SignedU128::minus
minus(d) == IF d.sign = "Positive" THEN Negative(d.value) ELSE Positive(d.value)

code_invariant_error(msg) == Err("code_invariant_error")

\* BoundedMath::unsigned_add
unsigned_add(max_value, base, value) ==
    IF base + value > max_value THEN Err("Overflow") ELSE Ok(base + value)

\* BoundedMath::unsigned_subtract
unsigned_subtract(max_value, base, value) ==
    IF value > base THEN Err("Underflow") ELSE Ok(base - value)

\* BoundedMath::unsigned_add_delta
unsigned_add_delta(max_value, base, delta) ==
    IF delta.sign = "Positive"
    THEN unsigned_add(max_value, base, delta.value)
    ELSE unsigned_subtract(max_value, base, delta.value)

\* BoundedMath::signed_add
signed_add(max_value, left, right) ==
    IF left.sign = right.sign
    THEN LET r == unsigned_add(max_value, left.value, right.value)
         IN  IF IsErr(r) THEN r
             ELSE Ok([sign |-> left.sign, value |-> r.value])
    ELSE LET p == IF left.sign = "Positive" THEN left.value ELSE right.value
             n == IF left.sign = "Positive" THEN right.value ELSE left.value
         IN  IF n > p THEN Ok(Negative(n - p)) ELSE Ok(Positive(p - n))

\* expect_ok: a BoundedMath error here is a breach of a code invariant
expect_ok(r) == IF IsOk(r) THEN r ELSE code_invariant_error("Expected Ok")

\* ok_overflow: Ok(v) -> Ok(Some(v)), Err(Overflow) -> Ok(None), other errors stay
ok_overflow(r) ==
    IF IsOk(r) THEN Ok(Some(r.value))
    ELSE IF r.error = "Overflow" THEN Ok(None)
    ELSE r

-----------------------------------------------------------------------------
(* delta_math: DeltaHistory *)

\* DeltaHistory::new
DeltaHistory_new ==
    [max_achieved_positive_delta |-> 0,
     min_achieved_negative_delta |-> 0,
     min_overflow_positive_delta |-> None,
     max_underflow_negative_delta |-> None]

\* DeltaHistory::is_empty
is_empty(history) == history = DeltaHistory_new

Max2(a, b) == IF a >= b THEN a ELSE b
Min2(a, b) == IF a <= b THEN a ELSE b

\* DeltaHistory::record_success
record_success(history, delta) ==
    IF delta.sign = "Positive"
    THEN [history EXCEPT !.max_achieved_positive_delta = Max2(@, delta.value)]
    ELSE [history EXCEPT !.min_achieved_negative_delta = Max2(@, delta.value)]

\* DeltaHistory::record_overflow
record_overflow(history, overflow_delta) ==
    [history EXCEPT !.min_overflow_positive_delta =
        IF @ = None THEN Some(overflow_delta)
        ELSE Some(Min2(@.value, overflow_delta))]

\* An underflow record that keeps the latest bound, not the tightest.
record_underflow_latest(history, underflow_delta) ==
    [history EXCEPT !.max_underflow_negative_delta = Some(underflow_delta)]

\* DeltaHistory::record_underflow.  The stored bound is the tightest one:
\* test_aggregator_underflows expects 250, 225, 225 (after 240), 201.
record_underflow(history, underflow_delta) ==
    [history EXCEPT !.max_underflow_negative_delta =
        IF @ = None THEN Some(underflow_delta)
        ELSE Some(Min2(@.value, underflow_delta))]

\* DeltaHistory::validate_against_base_value
validate_against_base_value(history, base_value, max_value) ==
    IF base_value + history.max_achieved_positive_delta > max_value
        THEN Err("speculative_invalidation")
    ELSE IF base_value < history.min_achieved_negative_delta
        THEN Err("speculative_invalidation")
    ELSE IF /\ history.min_overflow_positive_delta # None
            /\ base_value + history.min_overflow_positive_delta.value <= max_value
        THEN Err("speculative_invalidation")
    ELSE IF /\ history.max_underflow_negative_delta # None
            /\ base_value >= history.max_underflow_negative_delta.value
        THEN Err("speculative_invalidation")
    ELSE Ok(Unit)

-----------------------------------------------------------------------------
(* resolver: AggregatorReadMode, AggregatorResolver *)

Modes == {"LastCommitted", "Aggregated"}

\* What the store can answer for the aggregator's key: an error, a deleted
\* aggregator, or a value (which may exceed max_value).
Answers == {Err("resolver_error"), Ok(None)} \cup {Ok(Some(v)) : v \in 0..(MaxValue + 1)}

\* The resolver handed to one operation.  An operation makes at most one
\* resolver call (try_add, try_sub and read_last_committed only through the
\* cheap read, read_most_recent only its own), so the resolver of one call is
\* determined by what the store answers to it; the mode asked is logged by
\* the operation itself.
Resolvers == {[m \in Modes |-> answer] : answer \in Answers}

\* AggregatorResolver::get_aggregator_v1_value -> Result<Option<u128>>
get_aggregator_v1_value(resolver, state_key, mode) == resolver[mode]

\* AggregatorResolver::get_aggregator_v2_value -> Result<u128>
get_aggregator_v2_value(resolver, id, mode) ==
    IF IsOk(resolver[mode]) /\ resolver[mode].value # None
    THEN Ok(resolver[mode].value.value)
    ELSE Err("resolver_error")

-----------------------------------------------------------------------------
(* aggregator_extension: SpeculativeStartValue, AggregatorState *)

Unset == [tag |-> "Unset"]
LastCommittedValue(v) == [tag |-> "LastCommittedValue", value |-> v]
AggregatedValue(v) == [tag |-> "AggregatedValue", value |-> v]

get_any_value(ssv) ==
    IF ssv.tag = "Unset" THEN code_invariant_error("get_any_value on Unset")
    ELSE Ok(ssv.value)

get_value_for_read(ssv) ==
    IF ssv.tag = "Unset" THEN code_invariant_error("get_value_for_read on Unset")
    ELSE IF ssv.tag = "LastCommittedValue"
        THEN code_invariant_error("get_value_for_read on LastCommittedValue")
    ELSE Ok(ssv.value)

Data(v) == [kind |-> "Data", value |-> v]
Delta(ssv, d, h) ==
    [kind |-> "Delta", speculative_start_value |-> ssv, delta |-> d, history |-> h]

extension_error(msg) == Err("extension_error")

V1(state_key) == [version |-> "V1", key |-> state_key]
V2(id) == [version |-> "V2", key |-> id]

\* What an operation hands back: the aggregator after the call, the returned
\* Result and the resolver calls it made, in order.
Outcome(a, result, calls) == [agg |-> a, result |-> result, reads |-> calls]

Call(mode, answer) == [mode |-> mode, answer |-> answer]
-----------------------------------------------------------------------------
(* aggregator_extension: Aggregator *)

\* The resolver call of the cheap read: by the version of the id, in
\* LastCommitted mode; a V2 value is wrapped in Some.
cheap_read_mode == "LastCommitted"

\* The expensive read asking for the last committed value.
expensive_read_mode_last_committed == "LastCommitted"

\* The resolver call of the expensive read: by the version of the id, in
\* Aggregated mode; a V2 value is wrapped in Some.
expensive_read_mode == "Aggregated"

maybe_value_from_storage(a, resolver, mode) ==
    IF a.id.version = "V1"
    THEN get_aggregator_v1_value(resolver, a.id.key, mode)
    ELSE LET r == get_aggregator_v2_value(resolver, a.id.key, mode)
         IN  IF IsOk(r) THEN Ok(Some(r.value)) ELSE r

\* A deleted aggregator read as zero instead of refused.
value_from_storage_or_zero(maybe) ==
    IF IsErr(maybe) THEN extension_error("Could not find the value of the aggregator")
    ELSE IF maybe.value = None THEN Ok(0)
    ELSE Ok(maybe.value.value)

\* .map_err(extension_error)?.ok_or_else(extension_error)?
value_from_storage(maybe) ==
    IF IsErr(maybe) THEN extension_error("Could not find the value of the aggregator")
    ELSE IF maybe.value = None THEN extension_error("Could not read from deleted aggregator")
    ELSE Ok(maybe.value.value)

\* The cheap read consulting the resolver in every Delta state.
needs_cheap_read_whenever_delta(a) == a.state.kind = "Delta"

\* The cheap read applying its precondition whatever the start value is.
needs_cheap_read_or_delta_nonzero(a) ==
    /\ a.state.kind = "Delta"
    /\ \/ a.state.speculative_start_value.tag = "Unset"
       \/ a.state.delta # Positive(0)

\* if let Delta {..} = &mut self.state { if let Unset = speculative_start_value {
needs_cheap_read(a) ==
    a.state.kind = "Delta" /\ a.state.speculative_start_value.tag = "Unset"

\* if *delta != SignedU128::Positive(0) || !history.is_empty()
precondition_breached(a) ==
    a.state.delta # Positive(0) \/ ~is_empty(a.state.history)

\* Aggregator::read_last_committed_aggregator_value ("cheap read")
read_last_committed_aggregator_value(a, resolver) ==
    IF needs_cheap_read(a)
    THEN IF precondition_breached(a)
         THEN Outcome(a,
                  code_invariant_error("Delta or history not empty with Unset speculative value"),
                  <<>>)
         ELSE LET maybe == maybe_value_from_storage(a, resolver, cheap_read_mode)
                  calls == <<Call(cheap_read_mode, maybe)>>
                  value == value_from_storage(maybe)
              IN  IF IsErr(value) THEN Outcome(a, value, calls)
                  ELSE Outcome(
                      [a EXCEPT !.state.speculative_start_value =
                          LastCommittedValue(value.value)],
                      Ok(Unit), calls)
    ELSE Outcome(a, Ok(Unit), <<>>)


\* The bound check dropped: every input goes on to the arithmetic.
exceeds_max_value_never(a, input) == FALSE

\* if input > self.max_value { return Ok(false); }
exceeds_max_value(a, input) == input > a.max_value

\* The current value never available.
cur_value_unavailable(b) == code_invariant_error("Expected Ok")

\* try_add / try_sub, the Delta arm: the current value, start + delta
cur_value_of(b) ==
    LET start == get_any_value(b.state.speculative_start_value)
    IN  IF IsErr(start) THEN start
        ELSE expect_ok(unsigned_add_delta(b.max_value, start.value, b.state.delta))

\* try_add on Data without the bound.
try_add_data_unbounded(b, input, calls) ==
    Outcome([b EXCEPT !.state.value = @ + input], Ok(TRUE), calls)

\* try_add, the Data arm
try_add_data(b, input, calls) ==
    LET r == unsigned_add(b.max_value, b.state.value, input)
    IN  IF IsOk(r)
        THEN Outcome([b EXCEPT !.state.value = r.value], Ok(TRUE), calls)
        ELSE Outcome(b, Ok(FALSE), calls)


\* The overflow test taken against the start value, the delta forgotten.
add_overflows_ignoring_delta(b, cur_value, input) ==
    IsErr(unsigned_add(b.max_value, b.state.speculative_start_value.value, input))

\* try_add, the Delta arm: math.unsigned_add(cur_value, input).is_err()
add_overflows(b, cur_value, input) == IsErr(unsigned_add(b.max_value, cur_value, input))


\* A success that leaves the history as it was.
history_after_success_kept(history, new_delta) == history

\* A success recorded by its magnitude, the sign of the delta dropped.
history_after_success_by_magnitude(history, new_delta) ==
    record_success(history, Positive(new_delta.value))

\* try_add and try_sub, the Delta arm: history.record_success(new_delta)
history_after_success(history, new_delta) == record_success(history, new_delta)

\* A failed addition that records nothing.
overflow_delta_unrecorded(b, input) == Ok(None)

\* A failed addition that records its input instead of input + delta.
overflow_delta_is_input(b, input) == Ok(Some(input))

\* The refused delta of an addition computed with the delta negated.
overflow_delta_with_delta_negated(b, input) ==
    expect_ok(ok_overflow(unsigned_add_delta(b.max_value, input, minus(b.state.delta))))

\* try_add, the Delta arm: the delta a failed addition would have reached
overflow_delta_of(b, input) ==
    expect_ok(ok_overflow(unsigned_add_delta(b.max_value, input, b.state.delta)))

\* try_add, the Delta arm
try_add_delta(b, input, calls) ==
    LET cur_value == cur_value_of(b)
    IN  IF IsErr(cur_value) THEN Outcome(b, cur_value, calls)
        ELSE IF add_overflows(b, cur_value.value, input)
        THEN LET overflow_delta == overflow_delta_of(b, input)
             IN  IF IsErr(overflow_delta) THEN Outcome(b, overflow_delta, calls)
                 ELSE IF overflow_delta.value # None
                 THEN Outcome(
                          [b EXCEPT !.state.history =
                              record_overflow(@, overflow_delta.value.value)],
                          Ok(FALSE), calls)
                 ELSE Outcome(b, Ok(FALSE), calls)
        ELSE LET new_delta == expect_ok(signed_add(b.max_value, b.state.delta, Positive(input)))
             IN  IF IsErr(new_delta) THEN Outcome(b, new_delta, calls)
                 ELSE Outcome(
                          [b EXCEPT !.state.delta = new_delta.value,
                                    !.state.history = history_after_success(@, new_delta.value)],
                          Ok(TRUE), calls)

\* Aggregator::try_add
try_add(a, resolver, input) ==
    IF exceeds_max_value(a, input)
    THEN Outcome(a, Ok(FALSE), <<>>)
    ELSE LET rl == read_last_committed_aggregator_value(a, resolver)
         IN  IF IsErr(rl.result) THEN rl
             ELSE IF rl.agg.state.kind = "Data"
             THEN try_add_data(rl.agg, input, rl.reads)
             ELSE try_add_delta(rl.agg, input, rl.reads)

\* A subtraction that saturates at zero instead of failing.
try_sub_data_saturating(b, input, calls) ==
    LET r == unsigned_subtract(b.max_value, b.state.value, input)
    IN  IF IsOk(r)
        THEN Outcome([b EXCEPT !.state.value = r.value], Ok(TRUE), calls)
        ELSE Outcome([b EXCEPT !.state.value = 0], Ok(TRUE), calls)

\* try_sub, the Data arm
try_sub_data(b, input, calls) ==
    LET r == unsigned_subtract(b.max_value, b.state.value, input)
    IN  IF IsOk(r)
        THEN Outcome([b EXCEPT !.state.value = r.value], Ok(TRUE), calls)
        ELSE Outcome(b, Ok(FALSE), calls)

\* The underflow test off by one: subtracting the whole current value fails.
sub_underflows_at_equal(b, cur_value, input) == cur_value <= input

\* A subtraction that is never refused.
sub_underflows_never(b, cur_value, input) == FALSE

\* try_sub, the Delta arm: cur_value < input
sub_underflows(b, cur_value, input) == cur_value < input

\* The refused delta of a subtraction computed with the delta as it is.
underflow_delta_with_delta_kept(b, input) ==
    expect_ok(ok_overflow(unsigned_add_delta(b.max_value, input, b.state.delta)))

\* The refused delta of a subtraction taken to be the input.
underflow_delta_is_input(b, input) == Ok(Some(input))

\* try_sub, the Delta arm: the delta a failed subtraction would have reached
underflow_delta_of(b, input) ==
    expect_ok(ok_overflow(unsigned_add_delta(b.max_value, input, minus(b.state.delta))))

\* try_sub, the Delta arm
try_sub_delta(b, input, calls) ==
    LET cur_value == cur_value_of(b)
    IN  IF IsErr(cur_value) THEN Outcome(b, cur_value, calls)
        ELSE IF sub_underflows(b, cur_value.value, input)
        THEN LET underflow_delta == underflow_delta_of(b, input)
             IN  IF IsErr(underflow_delta) THEN Outcome(b, underflow_delta, calls)
                 ELSE IF underflow_delta.value # None
                 THEN Outcome(
                          [b EXCEPT !.state.history =
                              record_underflow(@, underflow_delta.value.value)],
                          Ok(FALSE), calls)
                 ELSE Outcome(b, Ok(FALSE), calls)
        ELSE LET new_delta == expect_ok(signed_add(b.max_value, b.state.delta, Negative(input)))
             IN  IF IsErr(new_delta) THEN Outcome(b, new_delta, calls)
                 ELSE Outcome(
                          [b EXCEPT !.state.delta = new_delta.value,
                                    !.state.history = history_after_success(@, new_delta.value)],
                          Ok(TRUE), calls)

\* Aggregator::try_sub
try_sub(a, resolver, input) ==
    IF exceeds_max_value(a, input)
    THEN Outcome(a, Ok(FALSE), <<>>)
    ELSE LET rl == read_last_committed_aggregator_value(a, resolver)
         IN  IF IsErr(rl.result) THEN rl
             ELSE IF rl.agg.state.kind = "Data"
             THEN try_sub_data(rl.agg, input, rl.reads)
             ELSE try_sub_delta(rl.agg, input, rl.reads)

\* The expensive read without the validation of the history.
validated_unchecked(a, value) == Ok(Unit)

\* read_most_recent: history.validate_against_base_value(value_from_storage, self.max_value)?
validated(a, value) == validate_against_base_value(a.state.history, value, a.max_value)

\* The expensive read storing its value as a last committed one.
start_after_expensive_read_as_last_committed(value) == LastCommittedValue(value)

\* The expensive read leaving the start value Unset.
start_after_expensive_read_unset(value) == Unset

\* read_most_recent: the start value stored after the expensive read
start_after_expensive_read(value) == AggregatedValue(value)

\* An expensive read that is not remembered.
performed_expensive_read_forgotten(a) == FALSE

\* read_most_recent_aggregator_value: if let AggregatedValue(start_value) = ..
performed_expensive_read(a) ==
    a.state.speculative_start_value.tag = "AggregatedValue"

\* Aggregator::read_most_recent_aggregator_value ("expensive read")
read_most_recent_aggregator_value(a, resolver) ==
    IF a.state.kind = "Data"
    THEN Outcome(a, Ok(a.state.value), <<>>)
    ELSE IF performed_expensive_read(a)
    THEN Outcome(a,
             unsigned_add_delta(a.max_value, a.state.speculative_start_value.value,
                                a.state.delta),
             <<>>)
    ELSE
    LET maybe == maybe_value_from_storage(a, resolver, expensive_read_mode)
        calls == <<Call(expensive_read_mode, maybe)>>
        value == value_from_storage(maybe)
    IN  IF IsErr(value) THEN Outcome(a, value, calls)
        ELSE LET valid == validated(a, value.value)
             IN  IF IsErr(valid) THEN Outcome(a, valid, calls)
                 ELSE LET result == expect_ok(
                              unsigned_add_delta(a.max_value, value.value, a.state.delta))
                      IN  IF IsErr(result) THEN Outcome(a, result, calls)
                          ELSE Outcome(
                                   [a EXCEPT !.state.speculative_start_value =
                                       start_after_expensive_read(value.value)],
                                   result, calls)

-----------------------------------------------------------------------------
(* aggregator_extension: AggregatorData, the two ways an Aggregator is made *)

\* The entry AggregatorData::get_aggregator inserts for an id it does not hold
get_aggregator(id, max_value) ==
    [id |-> id, max_value |-> max_value,
     state |-> Delta(Unset, Positive(0), DeltaHistory_new)]

\* A new aggregator made in Delta state, as one found in storage is.
create_new_aggregator_in_delta_state(id, max_value) ==
    [id |-> id, max_value |-> max_value,
     state |-> Delta(Unset, Positive(0), DeltaHistory_new)]

\* The entry AggregatorData::create_new_aggregator inserts
create_new_aggregator(id, max_value) ==
    [id |-> id, max_value |-> max_value, state |-> Data(0)]

\* BTreeMap as a function on the set of its keys.
EmptyMap == [k \in {} |-> k]

\* BTreeMap::insert
insert(map, key, value) ==
    [k \in (DOMAIN map) \cup {key} |-> IF k = key THEN value ELSE map[k]]

\* A removal that leaves the entry in the map.
remove_nothing(map, key) == map

\* BTreeMap::remove
remove(map, key) == [k \in (DOMAIN map) \ {key} |-> map[k]]

\* get_aggregator replacing the entry it finds.
entry_overwritten(map, key, value) == insert(map, key, value)

\* BTreeMap::entry(key).or_insert(value)
entry_or_insert(map, key, value) ==
    IF key \in DOMAIN map THEN map ELSE insert(map, key, value)

\* SnapshotValue, DerivedFormula, AggregatorSnapshotState
Integer(v) == [tag |-> "Integer", value |-> v]
Identity == [tag |-> "Identity"]
SnapshotState_Data(value) == [kind |-> "Data", value |-> value]
SnapshotState_Delta(base_aggregator, delta, formula) ==
    [kind |-> "Delta", base_aggregator |-> base_aggregator, delta |-> delta,
     formula |-> formula]
AggregatorSnapshot(id, state) == [id |-> id, state |-> state]

\* The largest u64, scaled down.
U64Max == 3

\* A call that did not return: an overflow in a build that checks arithmetic,
\* or a failed assertion.
Panic == [tag |-> "Panic"]

\* What a method of AggregatorData leaves behind: the data and what it returned.
DataOutcome(d, result) == [data |-> d, result |-> result]

\* AggregatorData::new
AggregatorData_new(id_counter) ==
    [new_aggregators |-> {},
     destroyed_aggregators |-> {},
     aggregators |-> EmptyMap,
     aggregator_snapshots |-> EmptyMap,
     id_counter |-> id_counter]

\* AggregatorData::get_aggregator: the data afterwards and the entry handed out
AggregatorData_get_aggregator(d, id, max_value) ==
    LET aggregators == entry_or_insert(d.aggregators, id, get_aggregator(id, max_value))
    IN  DataOutcome([d EXCEPT !.aggregators = aggregators], Ok(aggregators[id]))

\* A new aggregator that is not noted as new.
new_aggregators_unchanged(new_aggregators, id) == new_aggregators

\* self.new_aggregators.insert(id)
new_aggregators_with(new_aggregators, id) == new_aggregators \cup {id}

\* AggregatorData::create_new_aggregator
AggregatorData_create_new_aggregator(d, id, max_value) ==
    DataOutcome(
        [d EXCEPT !.aggregators = insert(@, id, create_new_aggregator(id, max_value)),
                  !.new_aggregators = new_aggregators_with(@, id)],
        Ok(Unit))

\* A removal that marks every aggregator as destroyed.
created_in_transaction_never(d, id) == FALSE

\* if self.new_aggregators.contains(&id)
created_in_transaction(d, id) == id \in d.new_aggregators

\* AggregatorData::remove_aggregator_v1
remove_aggregator_v1(d, id) ==
    IF id.version # "V1" THEN DataOutcome(d, Panic)
    ELSE IF created_in_transaction(d, id)
    THEN DataOutcome([d EXCEPT !.aggregators = remove(@, id),
                               !.new_aggregators = @ \ {id}],
                     Ok(Unit))
    ELSE DataOutcome([d EXCEPT !.aggregators = remove(@, id),
                               !.destroyed_aggregators = @ \cup {id.key}],
                     Ok(Unit))

\* An id taken from the counter without moving it.
generate_id_without_increment(d) == {DataOutcome(d, Ok(d.id_counter))}

\* AggregatorData::generate_id, every outcome of self.id_counter += 1 on a u64:
\* the sum, and at the largest u64 either the wrapped sum or a panic.
generate_id(d) ==
    IF d.id_counter < U64Max
    THEN {DataOutcome([d EXCEPT !.id_counter = @ + 1], Ok(d.id_counter + 1))}
    ELSE {DataOutcome([d EXCEPT !.id_counter = (@ + 1) % (U64Max + 1)],
                      Ok((d.id_counter + 1) % (U64Max + 1))),
          DataOutcome(d, Panic)}

\* A lookup that ignores the version of the id.
lookup_any_version(d, id) ==
    IF \E k \in DOMAIN d.aggregators : k.key = id
    THEN Some(d.aggregators[CHOOSE k \in DOMAIN d.aggregators : k.key = id])
    ELSE None

\* self.aggregators.get(&AggregatorVersionedID::V2(id))
lookup(d, id) ==
    IF V2(id) \in DOMAIN d.aggregators THEN Some(d.aggregators[V2(id)]) ELSE None

\* A snapshot of a Delta aggregator that forgets the delta.
snapshot_state_without_delta(aggregator, id) ==
    IF aggregator.state.kind = "Data"
    THEN SnapshotState_Data(Integer(aggregator.state.value))
    ELSE SnapshotState_Delta(id, Positive(0), Identity)

\* let snapshot_state = match aggregator.state { .. }
snapshot_state(aggregator, id) ==
    IF aggregator.state.kind = "Data"
    THEN SnapshotState_Data(Integer(aggregator.state.value))
    ELSE SnapshotState_Delta(id, aggregator.state.delta, Identity)

\* A snapshot stored under the id of its source.
snapshot_key_of_source(snapshot_id, id) == id

\* The key self.aggregator_snapshots.insert is given.
snapshot_key(snapshot_id, id) == snapshot_id

\* AggregatorData::snapshot after generate_id returned snapshot_id
snapshot_with_id(d, snapshot_id, id) ==
    IF lookup(d, id) = None
    THEN DataOutcome(d, code_invariant_error("Aggregator ID not found"))
    ELSE LET key == snapshot_key(snapshot_id, id)
             state == snapshot_state(lookup(d, id).value, id)
         IN  DataOutcome(
                 [d EXCEPT !.aggregator_snapshots =
                               insert(@, key, AggregatorSnapshot(key, state))],
                 Ok(snapshot_id))

\* AggregatorData::snapshot, every outcome
snapshot(d, id) ==
    {IF g.result = Panic THEN g ELSE snapshot_with_id(g.data, g.result.value, id) :
        g \in generate_id(d)}

-----------------------------------------------------------------------------
(* table_info_parser: IndexerLookupDB and TableInfoParser *)

\* QUERY_RETRIES of crate::convert: the attempts of one lookup.
QUERY_RETRIES == 2

\* TableHandle and TableInfo
Handles == {1, 2}
Infos == {"A", "B"}

\* The outcomes of self.db.get::<TableInfoSchema>(&handle): an error, nothing
\* stored, or the stored table info.
ReadFailed == Err("db")
ReadOutcomes == {ReadFailed, Ok(None)} \cup {Ok(Some(info)) : info \in Infos}

\* IndexerLookupDB::get_table_info: if let Ok(result) = .. { if let Some(..) = result
attempt_found(read) == IsOk(read) /\ read.value # None

\* The lookup with one more turn of the loop than QUERY_RETRIES.
retries_left_inclusive(retried) == retried <= QUERY_RETRIES

\* IndexerLookupDB::get_table_info: while retried < QUERY_RETRIES
retries_left(retried) == retried < QUERY_RETRIES

\* IndexerLookupDB::get_table_info from the state of the loop: reads[i] is what
\* the i-th database read returns.  The result comes with the count of reads.
RECURSIVE lookup_from(_, _)
lookup_from(reads, retried) ==
    IF retries_left(retried) /\ retried < Len(reads)
    THEN IF attempt_found(reads[retried + 1])
         THEN [result |-> Ok(Some(reads[retried + 1].value.value)), retried |-> retried + 1]
         ELSE lookup_from(reads, retried + 1)
    ELSE [result |-> Ok(None), retried |-> retried]

\* IndexerLookupDB::get_table_info
IndexerLookupDB_get_table_info(reads) == lookup_from(reads, 0)

\* AnnotatedMoveValue, as far as the parser tells values apart: a primitive, a
\* 0x1::table::Table struct with its handle and type parameters, a Table
\* struct whose first field is no address, and a vector or other struct.
Primitive == [kind |-> "U64"]
Table(handle, info) == [kind |-> "Table", handle |-> handle, info |-> info]
MalformedTable == [kind |-> "MalformedTable"]
Vector(items) == [kind |-> "Vector", items |-> items]

\* Bytes: what MoveValueAnnotator::view_value makes of them, a value or an error.
Bytes(value) == [kind |-> "Bytes", value |-> value]
Garbage == [kind |-> "Garbage"]
view_value(bytes) ==
    IF bytes.kind = "Bytes" THEN Ok(bytes.value) ELSE Err("view_value")

\* TableInfoParser::new
TableInfoParser_new == [result |-> EmptyMap, pending_on |-> EmptyMap]

\* The parser in the middle of parse_write_op: its fields, the answers the
\* database will give to the lookups still to come (TRUE: the reads work,
\* FALSE: every read fails), and the first error met.
Parsing(self, answers) == [parser |-> self, answers |-> answers, error |-> None]

Failed(st, error) == IF st.error = None THEN [st EXCEPT !.error = Some(error)] ELSE st

\* The reads of one lookup of handle in db.
ReadsOf(db_, handle, works) ==
    [i \in 1..(QUERY_RETRIES + 1) |->
        IF ~works THEN ReadFailed
        ELSE IF handle \in DOMAIN db_ THEN Ok(Some(db_[handle])) ELSE Ok(None)]

\* TableInfoParser::get_table_info: the info of the result, else that of the
\* database (an exhausted list of answers stands for reads that work)
known_info(st, db_, handle) ==
    IF handle \in DOMAIN st.parser.result
    THEN Some(st.parser.result[handle])
    ELSE IndexerLookupDB_get_table_info(
             ReadsOf(db_, handle, st.answers = <<>> \/ Head(st.answers))).result.value

\* The state after TableInfoParser::get_table_info: a lookup that went to the
\* database used up one answer.
Looked(st, handle) ==
    IF handle \in DOMAIN st.parser.result \/ st.answers = <<>> THEN st
    ELSE [st EXCEPT !.answers = Tail(@)]

\* parse_table_item: self.pending_on.entry(handle).or_insert_with(Vec::new).push(bytes)
deferred(pending_on, handle, bytes) ==
    insert(pending_on, handle,
           IF handle \in DOMAIN pending_on THEN Append(pending_on[handle], bytes)
           ELSE <<bytes>>)

\* save_table_info leaving the pending items where they are.
pending_kept(pending_on, handle) == pending_on

\* save_table_info: self.pending_on.remove(&handle)
pending_removed(pending_on, handle) == remove(pending_on, handle)

RECURSIVE parse_move_value(_, _, _)
RECURSIVE parse_move_values(_, _, _)
RECURSIVE parse_table_item(_, _, _, _)
RECURSIVE parse_table_items(_, _, _, _)
RECURSIVE save_table_info(_, _, _, _)

\* TableInfoParser::parse_move_value
parse_move_value(st, db_, move_value) ==
    IF st.error # None THEN st
    ELSE IF move_value.kind = "Vector" THEN parse_move_values(st, db_, move_value.items)
    ELSE IF move_value.kind = "Table"
         THEN save_table_info(st, db_, move_value.handle, move_value.info)
    ELSE IF move_value.kind = "MalformedTable" THEN Failed(st, "Table struct malformed")
    ELSE st

\* parse_move_value: for item in items { self.parse_move_value(item)?; }
parse_move_values(st, db_, items) ==
    IF st.error # None \/ items = <<>> THEN st
    ELSE parse_move_values(parse_move_value(st, db_, Head(items)), db_, Tail(items))

\* TableInfoParser::parse_table_item
parse_table_item(st, db_, handle, bytes) ==
    IF st.error # None THEN st
    ELSE LET table_info == known_info(st, db_, handle)
             st1 == Looked(st, handle)
         IN  IF table_info # None
             THEN LET value == view_value(bytes)
                  IN  IF IsErr(value) THEN Failed(st1, value.error)
                      ELSE parse_move_value(st1, db_, value.value)
             ELSE [st1 EXCEPT !.parser.pending_on = deferred(@, handle, bytes)]

\* save_table_info: for bytes in pending_items { self.parse_table_item(handle, &bytes)?; }
parse_table_items(st, db_, handle, pending_items) ==
    IF st.error # None \/ pending_items = <<>> THEN st
    ELSE parse_table_items(parse_table_item(st, db_, handle, Head(pending_items)),
                           db_, handle, Tail(pending_items))

\* TableInfoParser::save_table_info
save_table_info(st, db_, handle, info) ==
    IF st.error # None THEN st
    ELSE LET table_info == known_info(st, db_, handle)
             st1 == Looked(st, handle)
         IN  IF table_info = None
             THEN LET pending_items ==
                          IF handle \in DOMAIN st1.parser.pending_on
                          THEN st1.parser.pending_on[handle] ELSE <<>>
                      st2 == [st1 EXCEPT !.parser.result = insert(@, handle, info),
                                         !.parser.pending_on = pending_removed(@, handle)]
                  IN  parse_table_items(st2, db_, handle, pending_items)
             ELSE st1

\* TableInfoParser::parse_struct
parse_struct(st, db_, bytes) ==
    LET value == view_value(bytes)
    IN  IF st.error # None THEN st
        ELSE IF IsErr(value) THEN Failed(st, value.error)
        ELSE parse_move_value(st, db_, value.value)

\* parse_resource_group: for (struct_tag, bytes) in .. { self.parse_struct(struct_tag, &bytes)?; }
RECURSIVE parse_structs(_, _, _)
parse_structs(st, db_, group) ==
    IF st.error # None \/ group = <<>> THEN st
    ELSE parse_structs(parse_struct(st, db_, Head(group)), db_, Tail(group))

\* TableInfoParser::parse_resource_group
parse_resource_group(st, db_, bytes) ==
    IF bytes.kind # "Group" THEN Failed(st, "bcs") ELSE parse_structs(st, db_, bytes.group)

\* WriteOp with its StateKey: a deletion, an access path that names code, a
\* resource or a resource group or does not parse, a table item, a raw key.
Deletion == [kind |-> "Deletion"]
Code == [kind |-> "Code"]
Raw == [kind |-> "Raw"]
BadPath == [kind |-> "BadPath"]
Resource(bytes) == [kind |-> "Resource", bytes |-> bytes]
ResourceGroup(bytes) == [kind |-> "ResourceGroup", bytes |-> bytes]
Group(group) == [kind |-> "Group", group |-> group]
TableItem(handle, bytes) == [kind |-> "TableItem", handle |-> handle, bytes |-> bytes]

\* TableInfoParser::parse_write_op
parse_write_op(self, db_, write_op, answers) ==
    LET st == Parsing(self, answers)
    IN  IF write_op.kind \in {"Deletion", "Code", "Raw"} THEN st
        ELSE IF write_op.kind = "BadPath" THEN Failed(st, "path")
        ELSE IF write_op.kind = "Resource" THEN parse_struct(st, db_, write_op.bytes)
        ELSE IF write_op.kind = "ResourceGroup"
             THEN parse_resource_group(st, db_, write_op.bytes)
        ELSE parse_table_item(st, db_, write_op.handle, write_op.bytes)

\* finish: self.pending_on.is_empty()
pending_on_is_empty(self) == DOMAIN self.pending_on = {}

\* TableInfoParser::finish: the result, and the table infos put into the batch
finish(self) ==
    IF ~pending_on_is_empty(self)
    THEN [result |-> Err("pending table items"), batch |-> EmptyMap]
    ELSE [result |-> Ok(DOMAIN self.result # {}), batch |-> self.result]

\* SchemaBatch written to the database: DB::write_schemas
write_schemas(db_, batch) ==
    [h \in (DOMAIN db_) \cup (DOMAIN batch) |-> IF h \in DOMAIN batch THEN batch[h] ELSE db_[h]]

-----------------------------------------------------------------------------
(* The state machine: one aggregator, any sequence of its four operations *)

\* Inputs of try_add/try_sub: every in-range amount and one above max_value.
Inputs == 0..(MaxValue + 1)

\* Candidate base values the recorded history is judged against.
Bases == 0..MaxValue

Ids == {V1(1), V2(1)}

\* The three Ok types the operations return: Ok(bool) from try_add and
\* try_sub, Ok(u128) from read_most_recent, Ok(()) from read_last_committed.
OkBool(v) == [tag |-> "Ok", bool |-> v]
OkU128(v) == [tag |-> "Ok", u128 |-> v]
OkUnit == [tag |-> "Ok", unit |-> Unit]

Returned(op, result) ==
    IF IsErr(result) THEN result
    ELSE IF op \in {"try_add", "try_sub"} THEN OkBool(result.value)
    ELSE IF op = "read_most_recent" THEN OkU128(result.value)
    ELSE OkUnit

\* A resolver answer that carries a value.
HasValue(answer) == IsOk(answer) /\ answer.value # None

\* The LastCommitted-mode resolver calls of an operation that returned a value,
\* added to those counted before.
CheapReads(out) ==
    lcReads + Cardinality({i \in 1..Len(out.reads) :
                              /\ out.reads[i].mode = "LastCommitted"
                              /\ HasValue(out.reads[i].answer)})

\* A SignedU128 as an integer.
ToInt(d) == IF d.sign = "Positive" THEN d.value ELSE 0 - d.value

Nothing ==
    [positive |-> 0, negative |-> 0, overflow |-> None, underflow |-> None,
     aggregated |-> 0]

Least(known, v) == IF known = None THEN Some(v) ELSE Some(Min2(known.value, v))

\* What a call on the aggregator adds to what was seen.  A try_add or try_sub
\* on a Delta aggregator that returned true shows the delta it reached; one
\* with input <= max_value that returned false shows the delta it would have
\* reached, input + delta or input - delta, if that is within [0, max_value].
\* A read_most_recent that returned Ok after a resolver call is a successful
\* Aggregated-mode read.
Seen(op, input, out) ==
    LET reached == out.agg.state.delta
        refused == IF op = "try_add" THEN input + ToInt(agg.state.delta)
                   ELSE input - ToInt(agg.state.delta)
    IN  IF op = "read_most_recent"
        THEN IF out.reads # <<>> /\ IsOk(out.result)
             THEN [seen EXCEPT !.aggregated = @ + 1]
             ELSE seen
        ELSE IF agg.state.kind # "Delta" \/ op = "read_last_committed" THEN seen
        ELSE IF out.result = Ok(TRUE)
        THEN IF reached.sign = "Positive"
             THEN [seen EXCEPT !.positive = Max2(@, reached.value)]
             ELSE [seen EXCEPT !.negative = Max2(@, reached.value)]
        ELSE IF /\ out.result = Ok(FALSE)
                /\ input <= agg.max_value
                /\ refused \in 0..agg.max_value
        THEN IF op = "try_add"
             THEN [seen EXCEPT !.overflow = Least(@, refused)]
             ELSE [seen EXCEPT !.underflow = Least(@, refused)]
        ELSE seen

\* The record kept of the call that produced the current state.
Called(op, input, out) ==
    [op |-> op, input |-> input, reads |-> out.reads, result |-> Returned(op, out.result)]

\* The resolver calls whose answer the aggregator holds: those of the last
\* operation that consulted the resolver and changed the aggregator.
Fetched(out) ==
    IF out.agg # agg /\ out.reads # <<>> THEN out.reads ELSE fetched

\* One more call of the re-execution on Data{b}: the same call, its result
\* compared with the result the Delta-mode aggregator gave.  shadow[b] is
\* Some(aggregator) while every result so far agreed, None once one differed.
Replayed(s, o, out) ==
    IF s = None THEN None
    ELSE IF o.result = out.result THEN Some(o.agg)
    ELSE None

Rerun_try_add(s, resolver, input) ==
    IF s = None THEN None ELSE try_add(s.value, resolver, input)

Rerun_try_sub(s, resolver, input) ==
    IF s = None THEN None ELSE try_sub(s.value, resolver, input)

Tracked(out) == agg.state.kind = "Delta" /\ IsOk(out.result)

\* An indexer that is not used: an empty database, a new parser.
IndexIdle ==
    /\ db = EmptyMap
    /\ parser = TableInfoParser_new
    /\ progress = [status |-> "parsing", parsed |-> 0]
    /\ lastIndex = [op |-> "new", result |-> OkUnit]

Init ==
    /\ IndexIdle
    /\ \E id \in Ids :
           \/ agg = get_aggregator(id, MaxValue) /\ origin = "get_aggregator"
           \/ agg = create_new_aggregator(id, MaxValue) /\ origin = "create_new_aggregator"
    /\ lastCall = [op |-> "new", input |-> 0, reads |-> <<>>, result |-> OkUnit]
    /\ fetched = <<>>
    /\ lcReads = 0
    /\ seen = Nothing
    /\ data = AggregatorData_new(0)
    /\ lastData = [op |-> "new", args |-> [id_counter |-> 0], reads |-> <<>>, result |-> OkUnit]
    /\ log = [seed |-> 0, issued |-> <<>>, operations |-> 0]
    /\ shadow = [b \in Bases |->
                    Some([id |-> agg.id, max_value |-> agg.max_value, state |-> Data(b)])]

TryAdd ==
    \E input \in Inputs, resolver \in Resolvers :
        LET out == try_add(agg, resolver, input)
        IN  /\ agg' = out.agg
            /\ lastCall' = Called("try_add", input, out)
            /\ seen' = Seen("try_add", input, out)
            /\ fetched' = Fetched(out)
            /\ lcReads' = CheapReads(out)
            /\ UNCHANGED origin
            /\ UNCHANGED dataVars
            /\ UNCHANGED indexVars
            /\ shadow' = IF Tracked(out)
                         THEN [b \in Bases |->
                                  Replayed(shadow[b], Rerun_try_add(shadow[b], resolver, input), out)]
                         ELSE shadow

TrySub ==
    \E input \in Inputs, resolver \in Resolvers :
        LET out == try_sub(agg, resolver, input)
        IN  /\ agg' = out.agg
            /\ lastCall' = Called("try_sub", input, out)
            /\ seen' = Seen("try_sub", input, out)
            /\ fetched' = Fetched(out)
            /\ lcReads' = CheapReads(out)
            /\ UNCHANGED origin
            /\ UNCHANGED dataVars
            /\ UNCHANGED indexVars
            /\ shadow' = IF Tracked(out)
                         THEN [b \in Bases |->
                                  Replayed(shadow[b], Rerun_try_sub(shadow[b], resolver, input), out)]
                         ELSE shadow

ReadLastCommitted ==
    \E resolver \in Resolvers :
        LET out == read_last_committed_aggregator_value(agg, resolver)
        IN  /\ agg' = out.agg
            /\ lastCall' = Called("read_last_committed", 0, out)
            /\ seen' = Seen("read_last_committed", 0, out)
            /\ fetched' = Fetched(out)
            /\ lcReads' = CheapReads(out)
            /\ UNCHANGED origin
            /\ UNCHANGED dataVars
            /\ UNCHANGED indexVars
            /\ UNCHANGED shadow

ReadMostRecent ==
    \E resolver \in Resolvers :
        LET out == read_most_recent_aggregator_value(agg, resolver)
        IN  /\ agg' = out.agg
            /\ lastCall' = Called("read_most_recent", 0, out)
            /\ seen' = Seen("read_most_recent", 0, out)
            /\ fetched' = Fetched(out)
            /\ lcReads' = CheapReads(out)
            /\ UNCHANGED origin
            /\ UNCHANGED dataVars
            /\ UNCHANGED indexVars
            /\ UNCHANGED shadow

Next == TryAdd \/ TrySub \/ ReadLastCommitted \/ ReadMostRecent

Spec == Init /\ [][Next]_vars

-----------------------------------------------------------------------------
(* The state machine of AggregatorData: the aggregators and snapshots of one *)
(* transaction, driven by its methods and by the operations of the           *)
(* aggregators it hands out                                                  *)

\* The max_value arguments, the inputs of try_add/try_sub and the answers of
\* the store the transaction is run with.
DataMaxValues == {1, 2}
DataInputs == {1}
DataResolvers == {[m \in Modes |-> Ok(Some(1))]}

\* The counters AggregatorData::new is given: a small one and one that the
\* second generate_id takes over the largest u64.
Seeds == {0, U64Max - 1}

\* How many ids one transaction generates at most.
MaxIds == 2

\* How many operations one transaction makes on its aggregators at most.
MaxOperations == 1

AggregatorIDs == {1}

OkAggregator(a) == [tag |-> "Ok", aggregator |-> a]
OkId(id) == [tag |-> "Ok", id |-> id]

\* The result of a method of AggregatorData, by the type it returns.
DataReturned(op, result) ==
    IF result = Panic \/ IsErr(result) THEN result
    ELSE IF op = "get_aggregator" THEN OkAggregator(result.value)
    ELSE IF op \in {"snapshot", "generate_id"} THEN OkId(result.value)
    ELSE OkUnit

\* The arguments of a call that names an aggregator, with what data held for
\* the id when the call was made.
Named(id, max_value) ==
    [id |-> id, max_value |-> max_value,
     registered |-> id \in DOMAIN data.aggregators,
     new |-> id \in data.new_aggregators]

DataCalled(op, args, out) ==
    [op |-> op, args |-> args, reads |-> <<>>, result |-> DataReturned(op, out.result)]

\* An operation of the aggregator registered under id.
AggregatorCalled(op, id, input, out) ==
    [op |-> op, args |-> [id |-> id, input |-> input], reads |-> out.reads,
     result |-> Returned(op, out.result)]

\* The ids returned so far, with the one this call returned.
Issued(out) ==
    IF out.result = Panic THEN log
    ELSE [log EXCEPT !.issued = Append(@, out.data.id_counter)]

Running == lastData.result # Panic

DataInit ==
    /\ IndexIdle
    /\ \E seed \in Seeds :
           /\ data = AggregatorData_new(seed)
           /\ lastData = [op |-> "new", args |-> [id_counter |-> seed], reads |-> <<>>,
                          result |-> OkUnit]
           /\ log = [seed |-> seed, issued |-> <<>>, operations |-> 0]
    /\ agg = get_aggregator(V1(1), MaxValue)
    /\ origin = "get_aggregator"
    /\ lastCall = [op |-> "new", input |-> 0, reads |-> <<>>, result |-> OkUnit]
    /\ fetched = <<>>
    /\ lcReads = 0
    /\ seen = Nothing
    /\ shadow = [b \in Bases |-> None]

GetAggregator ==
    \E id \in Ids, max_value \in DataMaxValues :
        LET out == AggregatorData_get_aggregator(data, id, max_value)
        IN  /\ Running
            /\ data' = out.data
            /\ lastData' = DataCalled("get_aggregator", Named(id, max_value), out)
            /\ UNCHANGED log
            /\ UNCHANGED aggVars
            /\ UNCHANGED indexVars

CreateNewAggregator ==
    \E id \in Ids, max_value \in DataMaxValues :
        LET out == AggregatorData_create_new_aggregator(data, id, max_value)
        IN  /\ Running
            /\ data' = out.data
            /\ lastData' = DataCalled("create_new_aggregator", Named(id, max_value), out)
            /\ UNCHANGED log
            /\ UNCHANGED aggVars
            /\ UNCHANGED indexVars

RemoveAggregatorV1 ==
    \E id \in Ids :
        LET out == remove_aggregator_v1(data, id)
        IN  /\ Running
            /\ data' = out.data
            /\ lastData' = DataCalled("remove_aggregator_v1", Named(id, 0), out)
            /\ UNCHANGED log
            /\ UNCHANGED aggVars
            /\ UNCHANGED indexVars

Snapshot ==
    \E id \in AggregatorIDs :
        \E out \in snapshot(data, id) :
            /\ Running
            /\ Len(log.issued) < MaxIds
            /\ data' = out.data
            /\ lastData' = DataCalled("snapshot", [source |-> id], out)
            /\ log' = Issued(out)
            /\ UNCHANGED aggVars
            /\ UNCHANGED indexVars

GenerateId ==
    \E out \in generate_id(data) :
        /\ Running
        /\ Len(log.issued) < MaxIds
        /\ data' = out.data
        /\ lastData' = DataCalled("generate_id", [none |-> Unit], out)
        /\ log' = Issued(out)
        /\ UNCHANGED aggVars
        /\ UNCHANGED indexVars

\* An operation of a registered aggregator stores the aggregator it leaves.
Stored(id, out) == [data EXCEPT !.aggregators[id] = out.agg]

AggregatorTryAdd ==
    \E id \in DOMAIN data.aggregators, input \in DataInputs, resolver \in DataResolvers :
        LET out == try_add(data.aggregators[id], resolver, input)
        IN  /\ Running
            /\ log.operations < MaxOperations
            /\ data' = Stored(id, out)
            /\ lastData' = AggregatorCalled("try_add", id, input, out)
            /\ log' = [log EXCEPT !.operations = @ + 1]
            /\ UNCHANGED aggVars
            /\ UNCHANGED indexVars

AggregatorTrySub ==
    \E id \in DOMAIN data.aggregators, input \in DataInputs, resolver \in DataResolvers :
        LET out == try_sub(data.aggregators[id], resolver, input)
        IN  /\ Running
            /\ log.operations < MaxOperations
            /\ data' = Stored(id, out)
            /\ lastData' = AggregatorCalled("try_sub", id, input, out)
            /\ log' = [log EXCEPT !.operations = @ + 1]
            /\ UNCHANGED aggVars
            /\ UNCHANGED indexVars

AggregatorReadLastCommitted ==
    \E id \in DOMAIN data.aggregators, resolver \in DataResolvers :
        LET out == read_last_committed_aggregator_value(data.aggregators[id], resolver)
        IN  /\ Running
            /\ log.operations < MaxOperations
            /\ data' = Stored(id, out)
            /\ lastData' = AggregatorCalled("read_last_committed", id, 0, out)
            /\ log' = [log EXCEPT !.operations = @ + 1]
            /\ UNCHANGED aggVars
            /\ UNCHANGED indexVars

AggregatorReadMostRecent ==
    \E id \in DOMAIN data.aggregators, resolver \in DataResolvers :
        LET out == read_most_recent_aggregator_value(data.aggregators[id], resolver)
        IN  /\ Running
            /\ log.operations < MaxOperations
            /\ data' = Stored(id, out)
            /\ lastData' = AggregatorCalled("read_most_recent", id, 0, out)
            /\ log' = [log EXCEPT !.operations = @ + 1]
            /\ UNCHANGED aggVars
            /\ UNCHANGED indexVars

DataNext ==
    \/ GetAggregator
    \/ CreateNewAggregator
    \/ RemoveAggregatorV1
    \/ Snapshot
    \/ GenerateId
    \/ AggregatorTryAdd
    \/ AggregatorTrySub
    \/ AggregatorReadLastCommitted
    \/ AggregatorReadMostRecent

DataSpec == DataInit /\ [][DataNext]_vars

-----------------------------------------------------------------------------
(* The state machine of DeltaHistory alone: the history of one aggregator,   *)
(* driven by the three record methods with any argument                      *)

\* The arguments of record_success, and those of record_overflow and
\* record_underflow.
SignedDeltas == {Positive(v) : v \in 0..MaxValue} \cup {Negative(v) : v \in 0..MaxValue}
Magnitudes == 0..MaxValue

\* The record kept of a record_* call: its argument and the history before it.
Recorded(op, argument) ==
    [op |-> op, argument |-> argument, before |-> agg.state.history, reads |-> <<>>,
     result |-> OkUnit]

HistoryInit ==
    /\ IndexIdle
    /\ agg = get_aggregator(V1(1), MaxValue)
    /\ origin = "get_aggregator"
    /\ lastCall = [op |-> "new", input |-> 0, reads |-> <<>>, result |-> OkUnit]
    /\ fetched = <<>>
    /\ lcReads = 0
    /\ seen = Nothing
    /\ shadow = [b \in Bases |-> None]
    /\ data = AggregatorData_new(0)
    /\ lastData = [op |-> "new", args |-> [id_counter |-> 0], reads |-> <<>>, result |-> OkUnit]
    /\ log = [seed |-> 0, issued |-> <<>>, operations |-> 0]

RecordSuccess ==
    \E delta \in SignedDeltas :
        /\ agg' = [agg EXCEPT !.state.history = record_success(@, delta)]
        /\ lastCall' = Recorded("record_success", [delta |-> delta])
        /\ UNCHANGED <<fetched, shadow, lcReads, origin, seen>>
        /\ UNCHANGED dataVars
        /\ UNCHANGED indexVars

RecordOverflow ==
    \E overflow_delta \in Magnitudes :
        /\ agg' = [agg EXCEPT !.state.history = record_overflow(@, overflow_delta)]
        /\ lastCall' = Recorded("record_overflow", [overflow_delta |-> overflow_delta])
        /\ UNCHANGED <<fetched, shadow, lcReads, origin, seen>>
        /\ UNCHANGED dataVars
        /\ UNCHANGED indexVars

RecordUnderflow ==
    \E underflow_delta \in Magnitudes :
        /\ agg' = [agg EXCEPT !.state.history = record_underflow(@, underflow_delta)]
        /\ lastCall' = Recorded("record_underflow", [underflow_delta |-> underflow_delta])
        /\ UNCHANGED <<fetched, shadow, lcReads, origin, seen>>
        /\ UNCHANGED dataVars
        /\ UNCHANGED indexVars

HistoryNext == RecordSuccess \/ RecordOverflow \/ RecordUnderflow

HistorySpec == HistoryInit /\ [][HistoryNext]_vars

-----------------------------------------------------------------------------
(* The state machine of IndexerLookupDB::get_table_info: lookups whose       *)
(* database reads fail, find nothing or find a table info                    *)

\* What the database reads of one lookup return, one more than the loop may use.
ReadLists == [1..(QUERY_RETRIES + 1) -> ReadOutcomes]

IndexInit ==
    /\ db \in UNION {[known -> Infos] : known \in SUBSET Handles}
    /\ parser = TableInfoParser_new
    /\ progress = [status |-> "parsing", parsed |-> 0]
    /\ lastIndex = [op |-> "new", result |-> OkUnit]
    /\ agg = get_aggregator(V1(1), MaxValue)
    /\ origin = "get_aggregator"
    /\ lastCall = [op |-> "new", input |-> 0, reads |-> <<>>, result |-> OkUnit]
    /\ fetched = <<>>
    /\ lcReads = 0
    /\ seen = Nothing
    /\ shadow = [b \in Bases |-> None]
    /\ data = AggregatorData_new(0)
    /\ lastData = [op |-> "new", args |-> [id_counter |-> 0], reads |-> <<>>, result |-> OkUnit]
    /\ log = [seed |-> 0, issued |-> <<>>, operations |-> 0]

GetTableInfo ==
    \E handle \in Handles, reads \in ReadLists :
        LET out == IndexerLookupDB_get_table_info(reads)
        IN  /\ lastIndex' = [op |-> "get_table_info", handle |-> handle, reads |-> reads,
                             retried |-> out.retried, result |-> out.result]
            /\ UNCHANGED <<db, parser, progress>>
            /\ UNCHANGED aggVars
            /\ UNCHANGED dataVars

LookupNext == GetTableInfo

LookupSpec == IndexInit /\ [][LookupNext]_vars

-----------------------------------------------------------------------------
(* The state machine of index_with_annotator: a TableInfoParser fed with     *)
(* write ops, then finished and its batch written                            *)

MaxWriteOps == 2
MaxLookups == 2

TableValues == {Table(1, "A"), Table(2, "B")}
LeafValues == {Primitive, MalformedTable} \cup TableValues
ItemBytes == {Bytes(v) : v \in LeafValues} \cup {Garbage}
StructBytes ==
    ItemBytes \cup {Bytes(Vector(<<a, b>>)) : a, b \in TableValues}
Groups == {Group(<<a, b>>) : a, b \in {Bytes(t) : t \in TableValues} \cup {Garbage}}
WriteOps ==
    {Deletion, Code, Raw, BadPath}
        \cup {Resource(bytes) : bytes \in StructBytes}
        \cup {ResourceGroup(bytes) : bytes \in Groups \cup {Garbage}}
        \cup {TableItem(handle, bytes) : handle \in Handles, bytes \in ItemBytes}
AnswerLists == [1..MaxLookups -> BOOLEAN]

ParseWriteOp ==
    \E write_op \in WriteOps, answers \in AnswerLists :
        LET out == parse_write_op(parser, db, write_op, answers)
        IN  /\ progress.status = "parsing"
            /\ progress.parsed < MaxWriteOps
            /\ parser' = out.parser
            /\ progress' = [status |-> IF out.error = None THEN "parsing" ELSE "failed",
                            parsed |-> progress.parsed + 1]
            /\ lastIndex' = [op |-> "parse_write_op", write_op |-> write_op,
                             result |-> IF out.error = None THEN OkUnit
                                        ELSE Err(out.error.value)]
            /\ UNCHANGED db
            /\ UNCHANGED aggVars
            /\ UNCHANGED dataVars

\* The rest of index_with_annotator: finish, then self.db.write_schemas(batch)?
\* which writes the whole batch or fails.
Finish ==
    \E written \in BOOLEAN :
        LET out == finish(parser)
        IN  /\ progress.status = "parsing"
            /\ db' = IF IsOk(out.result) /\ written THEN write_schemas(db, out.batch) ELSE db
            /\ progress' = [progress EXCEPT
                               !.status = IF IsOk(out.result) /\ written THEN "done"
                                          ELSE "failed"]
            /\ lastIndex' = [op |-> "finish", finished |-> out.result, pending |-> parser.pending_on,
                             result |-> IF IsErr(out.result) THEN out.result
                                        ELSE IF written THEN OkUnit ELSE Err("write_schemas")]
            /\ UNCHANGED parser
            /\ UNCHANGED aggVars
            /\ UNCHANGED dataVars

IndexNext == ParseWriteOp \/ Finish

IndexerSpec == IndexInit /\ [][IndexNext]_vars

-----------------------------------------------------------------------------
(* Properties *)

IsDelta == agg.state.kind = "Delta"
IsData == agg.state.kind = "Data"

StartIsSet == IsDelta /\ agg.state.speculative_start_value.tag # "Unset"

TryOps == {"try_add", "try_sub"}

\* C1: on an aggregator obtained by get_aggregator, whenever the speculative
\* start value is set and in [0, max_value], the recorded history validates
\* against it: start + max_achieved_positive_delta <= max_value, start >=
\* min_achieved_negative_delta, start + min_overflow_positive_delta > max_value
\* when set, and start < max_underflow_negative_delta when set.
C1_HistoryValidatesAgainstStart ==
    (StartIsSet /\ agg.state.speculative_start_value.value <= agg.max_value) =>
        LET start == agg.state.speculative_start_value.value
            h == agg.state.history
        IN  /\ start + h.max_achieved_positive_delta <= agg.max_value
            /\ start >= h.min_achieved_negative_delta
            /\ h.min_overflow_positive_delta # None =>
                   start + h.min_overflow_positive_delta.value > agg.max_value
            /\ h.max_underflow_negative_delta # None =>
                   start < h.max_underflow_negative_delta.value

\* A history with successes of both signs and a recorded overflow and underflow.
C1_Witness ==
    /\ StartIsSet
    /\ lastCall.op \in TryOps
    /\ agg.state.history.max_achieved_positive_delta > 0
    /\ agg.state.history.min_achieved_negative_delta > 0
    /\ agg.state.history.min_overflow_positive_delta # None
    /\ agg.state.history.max_underflow_negative_delta # None

\* C2: sufficiency of the history.  Every base b in [0, max_value] that the
\* recorded history validates reproduces, on a Data aggregator started at b,
\* every true/false result the Delta-mode aggregator returned.
C2_ValidBaseReplaysResults ==
    IsDelta =>
        \A b \in Bases :
            IsOk(validate_against_base_value(agg.state.history, b, agg.max_value))
                => shadow[b] # None

\* A recorded overflow, a valid base other than the start value whose
\* re-execution agrees, and a base whose re-execution has diverged.
C2_Witness ==
    /\ StartIsSet
    /\ agg.state.history.min_overflow_positive_delta # None
    /\ \E b \in Bases :
           /\ b # agg.state.speculative_start_value.value
           /\ IsOk(validate_against_base_value(agg.state.history, b, agg.max_value))
           /\ shadow[b] # None
    /\ \E b \in Bases : shadow[b] = None

\* C3: necessity of the history.  Every base b in [0, max_value] whose
\* re-execution on a Data aggregator gave the same true/false results is
\* accepted by validate_against_base_value on the recorded history.
C3_ReplayingBaseIsValid ==
    IsDelta =>
        \A b \in Bases :
            shadow[b] # None =>
                IsOk(validate_against_base_value(agg.state.history, b, agg.max_value))

\* A failed addition with input <= max_value whose overflow delta exceeds
\* max_value and is not recorded, with re-executions that still agree.
C3_Witness ==
    /\ StartIsSet
    /\ lastCall.op = "try_add"
    /\ lastCall.result = OkBool(FALSE)
    /\ lastCall.input <= agg.max_value
    /\ lastCall.input + ToInt(agg.state.delta) > agg.max_value
    /\ agg.state.history.min_overflow_positive_delta = None
    /\ \E b \in Bases : shadow[b] # None
    /\ \E b \in Bases : shadow[b] = None

\* C4: try_add(input) and try_sub(input) with input > max_value return
\* Ok(false), leave the aggregator unchanged and make no resolver call.
C4_InputAboveMaxIsRefused ==
    [][(lastCall'.op \in TryOps /\ lastCall'.input > agg.max_value) =>
           /\ lastCall'.result = OkBool(FALSE)
           /\ agg' = agg
           /\ lastCall'.reads = <<>>]_vars

\* try_sub above max_value on a Delta aggregator whose start is still Unset.
C4_Witness ==
    /\ lastCall.op = "try_sub"
    /\ lastCall.input > agg.max_value
    /\ lastCall.result = OkBool(FALSE)
    /\ IsDelta
    /\ agg.state.speculative_start_value.tag = "Unset"

AllOps == {"try_add", "try_sub", "read_last_committed", "read_most_recent"}

FreshDelta == agg.state = Delta(Unset, Positive(0), DeltaHistory_new)

\* No resolver call of the operation that led to the next state found a value.
AbsentFromResolver ==
    \A i \in 1..Len(lastCall'.reads) : ~HasValue(lastCall'.reads[i].answer)

\* C5 as stated: on a get_aggregator aggregator absent from the resolver,
\* read_last_committed, read_most_recent, try_add(x) and try_sub(x) return an
\* error for any input x, and the state stays Delta{Unset, Positive(0), empty}.
C5_AbsentAlwaysErrs ==
    [][(FreshDelta /\ lastCall'.op \in AllOps /\ AbsentFromResolver) =>
           (IsErr(lastCall'.result) /\ agg' = agg)]_vars

\* C5 as amended: the same for every input x <= max_value.
C5_AbsentErrsInRange ==
    [][(/\ FreshDelta
        /\ lastCall'.op \in AllOps
        /\ AbsentFromResolver
        /\ lastCall'.op \in TryOps => lastCall'.input <= agg.max_value) =>
           (IsErr(lastCall'.result) /\ agg' = agg)]_vars

\* try_sub in range on a deleted V1 aggregator: an error, the state untouched.
C5_Witness ==
    /\ lastCall.op = "try_sub"
    /\ lastCall.input <= agg.max_value
    /\ lastCall.reads = <<Call("LastCommitted", Ok(None))>>
    /\ IsErr(lastCall.result)
    /\ FreshDelta

\* C6: in Data{value} state with input <= max_value, try_add returns Ok(true)
\* and stores value + input iff value + input <= max_value, else Ok(false)
\* with the value unchanged; try_sub returns Ok(true) and stores value - input
\* iff input <= value, else Ok(false) with the value unchanged;
\* read_most_recent returns the value.
C6_DataArithmetic ==
    [][IsData =>
        /\ (lastCall'.op = "try_add" /\ lastCall'.input <= agg.max_value) =>
               IF agg.state.value + lastCall'.input <= agg.max_value
               THEN /\ lastCall'.result = OkBool(TRUE)
                    /\ agg' = [agg EXCEPT !.state = Data(agg.state.value + lastCall'.input)]
               ELSE /\ lastCall'.result = OkBool(FALSE)
                    /\ agg' = agg
        /\ (lastCall'.op = "try_sub" /\ lastCall'.input <= agg.max_value) =>
               IF lastCall'.input <= agg.state.value
               THEN /\ lastCall'.result = OkBool(TRUE)
                    /\ agg' = [agg EXCEPT !.state = Data(agg.state.value - lastCall'.input)]
               ELSE /\ lastCall'.result = OkBool(FALSE)
                    /\ agg' = agg
        /\ lastCall'.op = "read_most_recent" =>
               /\ lastCall'.result = OkU128(agg.state.value)
               /\ agg' = agg]_vars

\* A subtraction refused on a Data aggregator that holds a non-zero value.
C6_Witness ==
    /\ IsData
    /\ lastCall.op = "try_sub"
    /\ lastCall.result = OkBool(FALSE)
    /\ lastCall.input <= agg.max_value
    /\ agg.state.value > 0

\* The start value after a try_add/try_sub: read in LastCommitted mode when it
\* was Unset, otherwise the one it was.
StartKept ==
    IF agg.state.speculative_start_value.tag = "Unset"
    THEN /\ Len(lastCall'.reads) = 1
         /\ lastCall'.reads[1].mode = "LastCommitted"
         /\ HasValue(lastCall'.reads[1].answer)
         /\ agg'.state.speculative_start_value =
                LastCommittedValue(lastCall'.reads[1].answer.value.value)
    ELSE agg'.state.speculative_start_value = agg.state.speculative_start_value

\* What C7 says of one try_add/try_sub with input <= max_value on a Delta
\* aggregator whose start value after the call is s and whose delta was d.
DeltaArithmetic ==
    LET s == agg'.state.speculative_start_value.value
        d == ToInt(agg.state.delta)
        input == lastCall'.input
        succeeds == IF lastCall'.op = "try_add"
                    THEN s + d + input <= agg.max_value
                    ELSE s + d >= input
        new_delta == IF lastCall'.op = "try_add" THEN d + input ELSE d - input
    IN  /\ (lastCall'.result = OkBool(TRUE)) <=> succeeds
        /\ StartKept
        /\ succeeds =>
               /\ ToInt(agg'.state.delta) = new_delta
               /\ agg'.state.history = record_success(agg.state.history, agg'.state.delta)

DeltaCall ==
    /\ IsDelta
    /\ lastCall'.op \in TryOps
    /\ lastCall'.input <= agg.max_value
    /\ agg'.state.speculative_start_value.tag # "Unset"

\* C7 as stated: for every start value s, try_add returns Ok(true) iff
\* s + d + input <= max_value and then delta becomes d + input, try_sub returns
\* Ok(true) iff s + d >= input and then delta becomes d - input; a success is
\* recorded with record_success and the start value is kept.
C7_DeltaArithmeticAnyStart ==
    [][DeltaCall => DeltaArithmetic]_vars

\* C7 as amended: the same for every start value s <= max_value.
C7_DeltaArithmeticInRange ==
    [][(DeltaCall /\ agg'.state.speculative_start_value.value <= agg.max_value)
           => DeltaArithmetic]_vars

\* A successful subtraction that takes the delta below zero.
C7_Witness ==
    /\ IsDelta
    /\ lastCall.op = "try_sub"
    /\ lastCall.result = OkBool(TRUE)
    /\ lastCall.input > 0
    /\ agg.state.delta.sign = "Negative"
    /\ agg.state.history.min_achieved_negative_delta = agg.state.delta.value
    /\ agg.state.history.max_achieved_positive_delta > 0

\* The value the one resolver call of the step returned.
ReadValue == lastCall'.reads[1].answer.value.value

ExpensiveRead ==
    /\ IsDelta
    /\ agg.state.speculative_start_value.tag # "AggregatedValue"
    /\ lastCall'.op = "read_most_recent"
    /\ lastCall'.reads # <<>>
    /\ HasValue(lastCall'.reads[1].answer)

C9_InvalidBaseRefused ==
    [][(/\ ExpensiveRead
        /\ IsErr(validate_against_base_value(agg.state.history, ReadValue, agg.max_value))) =>
           (IsErr(lastCall'.result) /\ agg' = agg)]_vars

\* An aggregated value within [0, max_value], different from the last
\* committed start value, that the history rejects.
C9_Witness ==
    /\ IsDelta
    /\ lastCall.op = "read_most_recent"
    /\ IsErr(lastCall.result)
    /\ lastCall.reads # <<>>
    /\ HasValue(lastCall.reads[1].answer)
    /\ lastCall.reads[1].answer.value.value <= agg.max_value
    /\ agg.state.speculative_start_value.tag = "LastCommittedValue"
    /\ agg.state.speculative_start_value.value # lastCall.reads[1].answer.value.value

\* C10: every value read_most_recent returns Ok on a Delta aggregator is
\* v + delta, where v is the value an Aggregated-mode resolver call returned
\* and the start value holds as AggregatedValue(v); a value read in
\* LastCommitted mode is never returned.
C10_OnlyAggregatedValuesReturned ==
    (IsDelta /\ lastCall.op = "read_most_recent" /\ IsOk(lastCall.result)) =>
        /\ Len(fetched) = 1
        /\ fetched[1].mode = "Aggregated"
        /\ HasValue(fetched[1].answer)
        /\ agg.state.speculative_start_value =
               AggregatedValue(fetched[1].answer.value.value)
        /\ lastCall.result.u128 = fetched[1].answer.value.value + ToInt(agg.state.delta)

\* A read served from the stored AggregatedValue, no resolver call made, on an
\* aggregator that worked on a last committed value before.
C10_Witness ==
    /\ IsDelta
    /\ lastCall.op = "read_most_recent"
    /\ IsOk(lastCall.result)
    /\ lastCall.reads = <<>>
    /\ agg.state.history.max_achieved_positive_delta > 0
    /\ agg.state.delta.sign = "Negative"
    /\ agg.state.delta.value > 0

\* C11: read_last_committed on an aggregator in Data state, or in Delta state
\* with the start already LastCommittedValue or AggregatedValue, returns Ok,
\* changes nothing and makes no resolver call; and over the life of the
\* aggregator at most one LastCommitted-mode resolver call returns a value.
C11_CheapReadOnlyOnce ==
    [][/\ (lastCall'.op = "read_last_committed" /\ (IsData \/ StartIsSet)) =>
              /\ lastCall'.result = OkUnit
              /\ agg' = agg
              /\ lastCall'.reads = <<>>
       /\ lcReads' <= 1]_vars

\* A second read_last_committed, after the one that fetched the value and a
\* try_add that moved the delta.
C11_Witness ==
    /\ lastCall.op = "read_last_committed"
    /\ lastCall.result = OkUnit
    /\ lastCall.reads = <<>>
    /\ IsDelta
    /\ agg.state.speculative_start_value.tag = "LastCommittedValue"
    /\ agg.state.delta.value > 0
    /\ lcReads = 1

\* The precondition of the cheap read does not hold: a delta or a history.
DeltaOrHistory ==
    IsDelta /\ (agg.state.delta # Positive(0) \/ ~is_empty(agg.state.history))

Created == origin = "create_new_aggregator"

\* C15: on an aggregator made by create_new_aggregator(id, M) no try_add,
\* try_sub, read_last_committed or read_most_recent makes a resolver call and
\* the state stays in the Data variant; a first try_add(k) with k <= M leaves
\* Data{k}.
C15_NewAggregatorNeverReads ==
    [][(Created /\ lastCall'.op \in AllOps) =>
           /\ IsData
           /\ agg'.state.kind = "Data"
           /\ lastCall'.reads = <<>>
           /\ (/\ lastCall.op = "new"
               /\ lastCall'.op = "try_add"
               /\ lastCall'.input <= agg.max_value) =>
                  agg'.state = Data(lastCall'.input)]_vars

\* A created aggregator that was added to, read and subtracted from.
C15_Witness ==
    /\ Created
    /\ IsData
    /\ lastCall.op = "try_sub"
    /\ lastCall.result = OkBool(TRUE)
    /\ lastCall.input > 0
    /\ agg.state.value > 0

\* Everything in data but the aggregators.
Rest(d) ==
    <<d.new_aggregators, d.destroyed_aggregators, d.aggregator_snapshots, d.id_counter>>

\* The aggregators registered under the ids other than id are the same.
OthersKept(id) ==
    /\ (DOMAIN data'.aggregators) \ {id} = (DOMAIN data.aggregators) \ {id}
    /\ \A k \in (DOMAIN data.aggregators) \ {id} : data'.aggregators[k] = data.aggregators[k]

\* C13: get_aggregator(id, max_value) makes no resolver call; for an id without
\* entry it inserts Delta{Unset, Positive(0), empty history} with the given
\* max_value; for an id with an entry it hands out that entry, state and
\* max_value unchanged; new_aggregators, destroyed_aggregators, snapshots and
\* id_counter are unchanged either way.
C13_GetAggregatorKeepsEntry ==
    [][lastData'.op = "get_aggregator" =>
           LET id == lastData'.args.id
           IN  /\ lastData'.reads = <<>>
               /\ id \in DOMAIN data'.aggregators
               /\ lastData'.result = OkAggregator(data'.aggregators[id])
               /\ IF id \in DOMAIN data.aggregators
                  THEN data'.aggregators[id] = data.aggregators[id]
                  ELSE data'.aggregators[id] =
                           [id |-> id, max_value |-> lastData'.args.max_value,
                            state |-> Delta(Unset, Positive(0), DeltaHistory_new)]
               /\ OthersKept(id)
               /\ Rest(data') = Rest(data)]_vars

\* get_aggregator with another max_value on an entry whose delta has moved.
C13_Witness ==
    /\ lastData.op = "get_aggregator"
    /\ lastData.args.registered
    /\ data.aggregators[lastData.args.id].max_value # lastData.args.max_value
    /\ data.aggregators[lastData.args.id].state.kind = "Delta"
    /\ data.aggregators[lastData.args.id].state.delta.value > 0

\* C14: after create_new_aggregator(id, max_value), whatever entry id had, the
\* aggregator under id is Data{0} with the given max_value and id is in
\* new_aggregators; destroyed_aggregators, snapshots and id_counter are
\* unchanged.
C14_CreateInsertsDataZero ==
    [][lastData'.op = "create_new_aggregator" =>
           LET id == lastData'.args.id
           IN  /\ id \in DOMAIN data'.aggregators
               /\ data'.aggregators[id] =
                      [id |-> id, max_value |-> lastData'.args.max_value, state |-> Data(0)]
               /\ id \in data'.new_aggregators
               /\ OthersKept(id)
               /\ data'.destroyed_aggregators = data.destroyed_aggregators
               /\ data'.aggregator_snapshots = data.aggregator_snapshots
               /\ data'.id_counter = data.id_counter]_vars

\* create_new_aggregator over an entry that get_aggregator had made.
C14_Witness ==
    /\ lastData.op = "create_new_aggregator"
    /\ lastData.args.registered
    /\ ~lastData.args.new
    /\ log.operations > 0
    /\ DOMAIN data.aggregators = {lastData.args.id}

\* C16: remove_aggregator_v1(id) on a V1 id removes the entry of id; an id in
\* new_aggregators leaves new_aggregators and destroyed_aggregators is
\* unchanged; otherwise the state key of id joins destroyed_aggregators and
\* new_aggregators is unchanged; the other aggregators, the snapshots and
\* id_counter are unchanged.
C16_RemoveV1 ==
    [][(lastData'.op = "remove_aggregator_v1" /\ lastData'.args.id.version = "V1") =>
           LET id == lastData'.args.id
           IN  /\ lastData'.result = OkUnit
               /\ id \notin DOMAIN data'.aggregators
               /\ OthersKept(id)
               /\ IF id \in data.new_aggregators
                  THEN /\ data'.new_aggregators = data.new_aggregators \ {id}
                       /\ data'.destroyed_aggregators = data.destroyed_aggregators
                  ELSE /\ data'.new_aggregators = data.new_aggregators
                       /\ data'.destroyed_aggregators =
                              data.destroyed_aggregators \cup {id.key}
               /\ data'.aggregator_snapshots = data.aggregator_snapshots
               /\ data'.id_counter = data.id_counter]_vars

\* The removal of an aggregator created in this transaction, next to another
\* aggregator that holds a value and a snapshot.
C16_Witness ==
    /\ lastData.op = "remove_aggregator_v1"
    /\ lastData.args.registered
    /\ lastData.args.new
    /\ data.destroyed_aggregators = {}
    /\ V2(1) \in DOMAIN data.aggregators
    /\ data.aggregators[V2(1)].state.kind = "Data"
    /\ data.aggregators[V2(1)].state.value > 0
    /\ DOMAIN data.aggregator_snapshots # {}

\* A call of snapshot that returned, and the id it was given.
SnapshotCall == lastData'.op = "snapshot" /\ lastData'.result # Panic

SourceRegistered == V2(lastData'.args.source) \in DOMAIN data.aggregators

\* C17: snapshot(id) on a registered V2 aggregator inserts, under the id it
\* generated, a snapshot in state Data(Integer(v)) for a source in Data{v} and
\* Delta{base_aggregator = id, delta = the delta of the source, Identity} for
\* a source in Delta state; it returns the generated id and leaves the source
\* and every other aggregator unchanged.
C17_SnapshotOfRegistered ==
    [][(SnapshotCall /\ SourceRegistered) =>
           LET id == lastData'.args.source
               source == data.aggregators[V2(id)]
               fresh == data'.id_counter
           IN  /\ lastData'.result = OkId(fresh)
               /\ fresh \notin DOMAIN data.aggregator_snapshots
               /\ fresh \in DOMAIN data'.aggregator_snapshots
               /\ data'.aggregator_snapshots[fresh].id = fresh
               /\ data'.aggregator_snapshots[fresh].state =
                      IF source.state.kind = "Data"
                      THEN [kind |-> "Data",
                            value |-> [tag |-> "Integer", value |-> source.state.value]]
                      ELSE [kind |-> "Delta", base_aggregator |-> id,
                            delta |-> source.state.delta,
                            formula |-> [tag |-> "Identity"]]
               /\ data'.aggregators = data.aggregators]_vars

\* The snapshot of a source whose delta is below zero.
C17_Witness ==
    /\ lastData.op = "snapshot"
    /\ IsOk(lastData.result)
    /\ lastData.result.id \in DOMAIN data.aggregator_snapshots
    /\ data.aggregator_snapshots[lastData.result.id].state.kind = "Delta"
    /\ data.aggregator_snapshots[lastData.result.id].state.delta = Negative(1)

\* C18: the state stored for a snapshot id is the same in every later state,
\* whatever operation follows.
C18_SnapshotsNeverChange ==
    [][\A k \in DOMAIN data.aggregator_snapshots :
           /\ k \in DOMAIN data'.aggregator_snapshots
           /\ data'.aggregator_snapshots[k] = data.aggregator_snapshots[k]]_vars

\* Two snapshots taken in Delta state with delta 0, and a try_add on their
\* source afterwards that moved its delta.
C18_Witness ==
    /\ lastData.op = "try_add"
    /\ lastData.args.id = V2(1)
    /\ data.aggregators[V2(1)].state.kind = "Delta"
    /\ data.aggregators[V2(1)].state.delta.value > 0
    /\ Cardinality(DOMAIN data.aggregator_snapshots) = 2
    /\ \A k \in DOMAIN data.aggregator_snapshots :
           /\ data.aggregator_snapshots[k].state.kind = "Delta"
           /\ data.aggregator_snapshots[k].state.delta = Positive(0)

IdOps == {"generate_id", "snapshot"}

\* C19: every generate_id, called directly or by snapshot, adds exactly 1 to
\* id_counter and returns the new counter; no other operation changes
\* id_counter; the ids returned are strictly increasing and greater than the
\* seed AggregatorData::new was given.
C19_IdsStrictlyIncrease ==
    [][/\ (lastData'.op \in IdOps /\ lastData'.result # Panic) =>
              /\ data'.id_counter = data.id_counter + 1
              /\ log'.issued = Append(log.issued, data'.id_counter)
              /\ lastData'.op = "generate_id" => lastData'.result = OkId(data'.id_counter)
       /\ lastData'.op \notin IdOps => data'.id_counter = data.id_counter
       /\ \A i \in 1..Len(log'.issued) :
              /\ log'.issued[i] > log'.seed
              /\ \A j \in 1..(i - 1) : log'.issued[j] < log'.issued[i]]_vars

\* C20: snapshot(id) returns an invariant error when no aggregator is
\* registered under V2(id), also when id is registered as a V1 aggregator only,
\* and then inserts no snapshot.
C20_SnapshotOfUnregistered ==
    [][(SnapshotCall /\ ~SourceRegistered) =>
           /\ lastData'.result = code_invariant_error("Aggregator ID not found")
           /\ data'.aggregator_snapshots = data.aggregator_snapshots
           /\ data'.aggregators = data.aggregators]_vars

\* snapshot(1) while 1 is registered as a V1 aggregator only.
C20_Witness ==
    /\ lastData.op = "snapshot"
    /\ IsErr(lastData.result)
    /\ V1(1) \in DOMAIN data.aggregators
    /\ V2(1) \notin DOMAIN data.aggregators

\* A try_add with input <= max_value on a Delta aggregator that returned with
\* the start value set (the resolver, if asked, had a value).
AddOnDelta ==
    /\ IsDelta
    /\ lastCall'.op = "try_add"
    /\ lastCall'.input <= agg.max_value
    /\ agg'.state.speculative_start_value.tag # "Unset"

\* start + delta + input > max_value
AddExceeds ==
    agg'.state.speculative_start_value.value + ToInt(agg.state.delta)
        + lastCall'.input > agg.max_value

\* What C22 says of a failed addition: Ok(false); start, delta, the achieved
\* extrema and max_underflow_negative_delta as before; min_overflow_positive_delta
\* the least of its old value and input + delta when input + delta <= max_value,
\* else as before.
FailedAddRecorded ==
    LET old == agg.state.history
        new == agg'.state.history
        overflow_delta == lastCall'.input + ToInt(agg.state.delta)
    IN  /\ lastCall'.result = OkBool(FALSE)
        /\ StartKept
        /\ agg'.state.delta = agg.state.delta
        /\ new.max_achieved_positive_delta = old.max_achieved_positive_delta
        /\ new.min_achieved_negative_delta = old.min_achieved_negative_delta
        /\ new.max_underflow_negative_delta = old.max_underflow_negative_delta
        /\ new.min_overflow_positive_delta =
               IF overflow_delta <= agg.max_value
               THEN Least(old.min_overflow_positive_delta, overflow_delta)
               ELSE old.min_overflow_positive_delta

\* min_overflow_positive_delta is the smallest input + delta recorded so far.
SmallestOverflowKept ==
    IsDelta' => agg'.state.history.min_overflow_positive_delta = seen'.overflow

\* C22 as stated: a try_add(input) with input <= max_value on a Delta
\* aggregator with start + delta + input > max_value returns Ok(false), leaves
\* start, delta, both achieved extrema and max_underflow_negative_delta
\* unchanged, and sets min_overflow_positive_delta to the minimum of its old
\* value (if set) and input + delta when input + delta <= max_value, and
\* records nothing otherwise; min_overflow_positive_delta is always the
\* smallest input + delta recorded by the failed additions so far.
C22_FailedAddAnyStart ==
    [][/\ (AddOnDelta /\ AddExceeds) => FailedAddRecorded
       /\ SmallestOverflowKept]_vars

\* C22 as amended: the same for every start value <= max_value.
C22_FailedAddInRange ==
    [][/\ (/\ AddOnDelta
           /\ AddExceeds
           /\ agg'.state.speculative_start_value.value <= agg.max_value) =>
              FailedAddRecorded
       /\ SmallestOverflowKept]_vars

\* A failed try_add(2) at delta 0 that keeps the smaller bound 1 recorded by
\* a failed addition before it.
C22_Witness ==
    /\ IsDelta
    /\ lastCall.op = "try_add"
    /\ lastCall.input = 2
    /\ lastCall.result = OkBool(FALSE)
    /\ agg.state.delta = Positive(0)
    /\ agg.state.history.min_overflow_positive_delta = Some(1)
    /\ seen.overflow = Some(1)

\* A try_sub with input <= max_value on a Delta aggregator that returned with
\* the start value set.
SubOnDelta ==
    /\ IsDelta
    /\ lastCall'.op = "try_sub"
    /\ lastCall'.input <= agg.max_value
    /\ agg'.state.speculative_start_value.tag # "Unset"

\* start + delta < input
SubFallsBelow ==
    agg'.state.speculative_start_value.value + ToInt(agg.state.delta)
        < lastCall'.input

\* What C23 says of a failed subtraction: Ok(false); start, delta, the
\* achieved extrema and min_overflow_positive_delta as before;
\* max_underflow_negative_delta the least of its old value and input - delta
\* when input - delta is within [0, max_value], else as before.
FailedSubRecorded ==
    LET old == agg.state.history
        new == agg'.state.history
        underflow_delta == lastCall'.input - ToInt(agg.state.delta)
    IN  /\ lastCall'.result = OkBool(FALSE)
        /\ StartKept
        /\ agg'.state.delta = agg.state.delta
        /\ new.max_achieved_positive_delta = old.max_achieved_positive_delta
        /\ new.min_achieved_negative_delta = old.min_achieved_negative_delta
        /\ new.min_overflow_positive_delta = old.min_overflow_positive_delta
        /\ new.max_underflow_negative_delta =
               IF underflow_delta \in 0..agg.max_value
               THEN Least(old.max_underflow_negative_delta, underflow_delta)
               ELSE old.max_underflow_negative_delta

\* max_underflow_negative_delta is the smallest input - delta recorded so far.
SmallestUnderflowKept ==
    IsDelta' => agg'.state.history.max_underflow_negative_delta = seen'.underflow

\* C23: a try_sub(input) with input <= max_value on a Delta aggregator with
\* start + delta < input returns Ok(false), leaves start, delta, both achieved
\* extrema and min_overflow_positive_delta unchanged, and records
\* input + (-delta) when it is within [0, max_value], so that
\* max_underflow_negative_delta is always the smallest input + (-delta)
\* recorded by the failed subtractions so far.
C23_FailedSubRecordsTightest ==
    [][/\ (SubOnDelta /\ SubFallsBelow) => FailedSubRecorded
       /\ SmallestUnderflowKept]_vars

\* A failed try_sub(2) at delta 0 that keeps the smaller bound 1 recorded by
\* a failed subtraction before it.
C23_Witness ==
    /\ IsDelta
    /\ lastCall.op = "try_sub"
    /\ lastCall.input = 2
    /\ lastCall.result = OkBool(FALSE)
    /\ agg.state.delta = Positive(0)
    /\ agg.state.history.max_underflow_negative_delta = Some(1)
    /\ seen.underflow = Some(1)

\* A try_sub on a Delta aggregator that returned Ok(false) and whose
\* input + (-delta) is within [0, max_value]: record_underflow was called.
UnderflowRecorded ==
    /\ SubOnDelta
    /\ lastCall'.result = OkBool(FALSE)
    /\ lastCall'.input - ToInt(agg.state.delta) \in 0..agg.max_value

\* C24 as stated: record_underflow(underflow_delta) sets
\* max_underflow_negative_delta to underflow_delta if unset and otherwise to
\* the maximum of the stored value and underflow_delta, so the stored value
\* never decreases over failed try_sub calls.
C24_UnderflowKeepsMaximum ==
    [][UnderflowRecorded =>
           LET old == agg.state.history.max_underflow_negative_delta
               new == agg'.state.history.max_underflow_negative_delta
               underflow_delta == lastCall'.input - ToInt(agg.state.delta)
           IN  /\ new = IF old = None THEN Some(underflow_delta)
                        ELSE Some(Max2(old.value, underflow_delta))
               /\ old # None => new.value >= old.value]_vars

\* C24 as amended: record_underflow(underflow_delta) sets
\* max_underflow_negative_delta to underflow_delta if unset and otherwise to
\* the minimum of the stored value and underflow_delta, so the stored value
\* never increases over failed try_sub calls.
C24_UnderflowKeepsMinimum ==
    [][UnderflowRecorded =>
           LET old == agg.state.history.max_underflow_negative_delta
               new == agg'.state.history.max_underflow_negative_delta
               underflow_delta == lastCall'.input - ToInt(agg.state.delta)
           IN  /\ new = IF old = None THEN Some(underflow_delta)
                        ELSE Some(Min2(old.value, underflow_delta))
               /\ old # None => new.value <= old.value]_vars

\* A failed try_sub(1) at delta 0 after which the stored bound is 1.
C24_Witness ==
    /\ IsDelta
    /\ lastCall.op = "try_sub"
    /\ lastCall.input = 1
    /\ lastCall.result = OkBool(FALSE)
    /\ agg.state.delta = Positive(0)
    /\ agg.state.history.max_underflow_negative_delta = Some(1)

\* C25: on a Delta aggregator max_achieved_positive_delta is the largest
\* positive value, and min_achieved_negative_delta the largest magnitude of a
\* negative value, that delta held right after a successful try_add/try_sub
\* (0 if none); neither decreases; a failed operation changes neither, and a
\* successful one changes only the extremum of the sign of the delta it
\* reached, and only when the delta exceeds it.
C25_AchievedExtrema ==
    [][(IsDelta /\ IsDelta') =>
           LET old == agg.state.history
               new == agg'.state.history
               reached == agg'.state.delta
           IN  /\ new.max_achieved_positive_delta = seen'.positive
               /\ new.min_achieved_negative_delta = seen'.negative
               /\ new.max_achieved_positive_delta >= old.max_achieved_positive_delta
               /\ new.min_achieved_negative_delta >= old.min_achieved_negative_delta
               /\ (lastCall'.op \in TryOps /\ lastCall'.result # OkBool(TRUE)) =>
                      /\ new.max_achieved_positive_delta = old.max_achieved_positive_delta
                      /\ new.min_achieved_negative_delta = old.min_achieved_negative_delta
               /\ (lastCall'.op \in TryOps /\ lastCall'.result = OkBool(TRUE)) =>
                      /\ (reached.sign = "Negative"
                            \/ reached.value <= old.max_achieved_positive_delta) =>
                             new.max_achieved_positive_delta = old.max_achieved_positive_delta
                      /\ (reached.sign = "Positive"
                            \/ reached.value <= old.min_achieved_negative_delta) =>
                             new.min_achieved_negative_delta = old.min_achieved_negative_delta
                      /\ (reached.sign = "Positive"
                            /\ reached.value > old.max_achieved_positive_delta) =>
                             new.max_achieved_positive_delta = reached.value
                      /\ (reached.sign = "Negative"
                            /\ reached.value > old.min_achieved_negative_delta) =>
                             new.min_achieved_negative_delta = reached.value]_vars

\* A successful try_add that brings the delta back to 0 after it had been
\* at 1 and at -1: the extrema stay 1 and 1.
C25_Witness ==
    /\ IsDelta
    /\ lastCall.op = "try_add"
    /\ lastCall.result = OkBool(TRUE)
    /\ agg.state.delta = Positive(0)
    /\ agg.state.history.max_achieved_positive_delta = 1
    /\ agg.state.history.min_achieved_negative_delta = 1
    /\ seen.positive = 1
    /\ seen.negative = 1

\* The start value of the Delta aggregator is AggregatedValue(v).
Aggregated == IsDelta /\ agg.state.speculative_start_value.tag = "AggregatedValue"

\* C26: once the start value of a Delta aggregator is AggregatedValue(v), no
\* operation consults the resolver and the start value stays; read_most_recent
\* returns v + delta and changes nothing; try_add and try_sub decide and move
\* the delta with v as base; and the read_most_recent calls that returned Ok
\* after consulting the resolver number at most one.
C26_AggregatedValueIsFinal ==
    [][/\ Aggregated =>
              /\ lastCall'.reads = <<>>
              /\ agg'.state.speculative_start_value = agg.state.speculative_start_value
              /\ lastCall'.op = "read_most_recent" =>
                     /\ lastCall'.result =
                            OkU128(agg.state.speculative_start_value.value
                                       + ToInt(agg.state.delta))
                     /\ agg' = agg
              /\ (lastCall'.op \in TryOps /\ lastCall'.input <= agg.max_value) =>
                     DeltaArithmetic
       /\ seen'.aggregated <= 1]_vars

\* A read_most_recent answered from AggregatedValue(2) and a delta of -1,
\* after the one Aggregated-mode read.
C26_Witness ==
    /\ Aggregated
    /\ lastCall.op = "read_most_recent"
    /\ lastCall.reads = <<>>
    /\ agg.state.speculative_start_value.value = 2
    /\ agg.state.delta = Negative(1)
    /\ lastCall.result = OkU128(1)
    /\ seen.aggregated = 1

\* id leaves no trace in the change set: it is in neither new_aggregators nor
\* the aggregators map, and its state key is not in destroyed_aggregators.
FilteredOut(d, id) ==
    /\ id \notin d.new_aggregators
    /\ id \notin DOMAIN d.aggregators
    /\ id.key \notin d.destroyed_aggregators

\* rec records a remove_aggregator_v1 that returned, on a V1 id that
\* create_new_aggregator had put into new_aggregators.
RemovedCreated(rec) ==
    /\ rec.op = "remove_aggregator_v1"
    /\ rec.result = OkUnit
    /\ rec.args.new

\* rec records a call of one of the methods ops with the argument id.
Names(rec, ops, id) == rec.op \in ops /\ rec.args.id = id

\* C27 as stated: after remove_aggregator_v1 of an id created in the same
\* transaction, id is in neither new_aggregators nor the aggregators map and
\* its state key is not in destroyed_aggregators, and the next operation keeps
\* it so unless it is create_new_aggregator of id.
C27_CreatedThenRemovedStaysOut ==
    [][/\ RemovedCreated(lastData') => FilteredOut(data', lastData'.args.id)
       /\ (/\ RemovedCreated(lastData)
           /\ FilteredOut(data, lastData.args.id)
           /\ ~Names(lastData', {"create_new_aggregator"}, lastData.args.id)) =>
              FilteredOut(data', lastData.args.id)]_vars

\* C27 as amended: after remove_aggregator_v1 of an id created in the same
\* transaction, whose state key was not in destroyed_aggregators, id is in
\* neither new_aggregators nor the aggregators map and its state key is not in
\* destroyed_aggregators; an id of which this holds stays so through every
\* operation but create_new_aggregator, get_aggregator and
\* remove_aggregator_v1 of that id.
C27_FilteredOutUntilNamed ==
    [][/\ (/\ RemovedCreated(lastData')
           /\ lastData'.args.id.key \notin data.destroyed_aggregators) =>
              FilteredOut(data', lastData'.args.id)
       /\ \A id \in {i \in Ids : i.version = "V1"} :
              (/\ FilteredOut(data, id)
               /\ ~Names(lastData', {"create_new_aggregator", "get_aggregator",
                                     "remove_aggregator_v1"}, id)) =>
                  FilteredOut(data', id)]_vars

\* The removal of a created aggregator that leaves no trace of it, next to a
\* V2 aggregator that stays registered.
C27_Witness ==
    /\ RemovedCreated(lastData)
    /\ lastData.args.registered
    /\ FilteredOut(data, lastData.args.id)
    /\ data.new_aggregators = {}
    /\ DOMAIN data.aggregators = {V2(1)}

\* C28: in every state of a Delta aggregator the history has
\* max_achieved_positive_delta <= max_value, min_achieved_negative_delta <=
\* max_value, min_overflow_positive_delta > max_achieved_positive_delta when
\* set and max_underflow_negative_delta > min_achieved_negative_delta when set.
C28_HistoryWellFormed ==
    IsDelta =>
        LET h == agg.state.history
        IN  /\ h.max_achieved_positive_delta <= agg.max_value
            /\ h.min_achieved_negative_delta <= agg.max_value
            /\ h.min_overflow_positive_delta # None =>
                   h.min_overflow_positive_delta.value > h.max_achieved_positive_delta
            /\ h.max_underflow_negative_delta # None =>
                   h.max_underflow_negative_delta.value > h.min_achieved_negative_delta

\* A history with all four fields in use, after a re-basing of the start
\* value by read_most_recent.
C28_Witness ==
    /\ Aggregated
    /\ agg.state.history.max_achieved_positive_delta = 1
    /\ agg.state.history.min_achieved_negative_delta = 1
    /\ agg.state.history.min_overflow_positive_delta = Some(2)
    /\ agg.state.history.max_underflow_negative_delta = Some(2)

\* C29: a Data aggregator has 0 <= value <= max_value; a Delta aggregator
\* with a set start value s <= max_value has 0 <= s + delta <= max_value and
\* |delta| <= max_value.
C29_ValueInRange ==
    /\ IsData => agg.state.value \in 0..agg.max_value
    /\ (StartIsSet /\ agg.state.speculative_start_value.value <= agg.max_value) =>
           /\ agg.state.speculative_start_value.value + ToInt(agg.state.delta)
                  \in 0..agg.max_value
           /\ agg.state.delta.value <= agg.max_value

\* A Delta aggregator brought to max_value by a delta of max_value.
C29_Witness ==
    /\ StartIsSet
    /\ agg.state.speculative_start_value.value = 0
    /\ agg.state.delta = Positive(agg.max_value)
    /\ lastCall.op = "try_add"
    /\ lastCall.result = OkBool(TRUE)

\* C30: a Delta aggregator whose start value is Unset has delta Positive(0)
\* and an empty history, so the condition under which read_last_committed
\* returns its invariant error is false in every state.
C30_UnsetMeansUntouched ==
    (IsDelta /\ agg.state.speculative_start_value.tag = "Unset") =>
        /\ agg.state.delta = Positive(0)
        /\ agg.state.history = DeltaHistory_new
        /\ ~(needs_cheap_read(agg) /\ precondition_breached(agg))

\* An Unset aggregator after a call that failed for want of a value.
C30_Witness ==
    /\ IsDelta
    /\ agg.state.speculative_start_value.tag = "Unset"
    /\ lastCall.op = "try_add"
    /\ lastCall.input <= agg.max_value
    /\ IsErr(lastCall.result)
    /\ lastCall.reads # <<>>

\* C31: record_success, record_overflow and record_underflow applied twice
\* with the same argument give the history one application gives; two
\* record_success calls with deltas of the same sign, two record_overflow
\* calls and two record_underflow calls give the same history in either order.
C31_RecordsIdempotentAndCommute ==
    LET h == agg.state.history
    IN  /\ \A d \in SignedDeltas :
               record_success(record_success(h, d), d) = record_success(h, d)
        /\ \A v \in Magnitudes :
               /\ record_overflow(record_overflow(h, v), v) = record_overflow(h, v)
               /\ record_underflow(record_underflow(h, v), v) = record_underflow(h, v)
        /\ \A d1, d2 \in SignedDeltas :
               d1.sign = d2.sign =>
                   record_success(record_success(h, d1), d2)
                       = record_success(record_success(h, d2), d1)
        /\ \A v1, v2 \in Magnitudes :
               /\ record_overflow(record_overflow(h, v1), v2)
                      = record_overflow(record_overflow(h, v2), v1)
               /\ record_underflow(record_underflow(h, v1), v2)
                      = record_underflow(record_underflow(h, v2), v1)

\* A record_underflow(2) on a history that holds the bound 1 along with the
\* other three fields in use: the history stays as it was.
C31_Witness ==
    /\ lastCall.op = "record_underflow"
    /\ lastCall.argument.underflow_delta = 2
    /\ lastCall.before = agg.state.history
    /\ agg.state.history.max_underflow_negative_delta = Some(1)
    /\ agg.state.history.min_overflow_positive_delta = Some(1)
    /\ agg.state.history.max_achieved_positive_delta = 2
    /\ agg.state.history.min_achieved_negative_delta = 1

\* The attempts, among the QUERY_RETRIES the loop may make, whose read
\* succeeds with a table info.
Finding(reads) ==
    {i \in 1..QUERY_RETRIES : IsOk(reads[i]) /\ reads[i].value # None}

\* C32: get_table_info makes at most QUERY_RETRIES database reads and never
\* returns Err; it returns Ok(Some(info)) at the first attempt whose read
\* succeeds with a value, having read that many times, and Ok(None) after
\* QUERY_RETRIES reads when every attempt failed or found nothing.
C32_LookupBounded ==
    lastIndex.op = "get_table_info" =>
        LET reads == lastIndex.reads
        IN  /\ lastIndex.retried <= QUERY_RETRIES
            /\ IsOk(lastIndex.result)
            /\ IF Finding(reads) # {}
               THEN LET first == CHOOSE i \in Finding(reads) :
                                     \A j \in Finding(reads) : i <= j
                    IN  /\ lastIndex.result = Ok(Some(reads[first].value.value))
                        /\ lastIndex.retried = first
               ELSE /\ lastIndex.result = Ok(None)
                    /\ lastIndex.retried = QUERY_RETRIES

\* A lookup whose first read fails and whose second finds the info.
C32_Witness ==
    /\ lastIndex.op = "get_table_info"
    /\ lastIndex.reads[1] = ReadFailed
    /\ lastIndex.reads[2] = Ok(Some("B"))
    /\ lastIndex.result = Ok(Some("B"))
    /\ lastIndex.retried = 2

C33_ErrLeavesStateAnyAnswer ==
    [][(lastCall'.op \in AllOps /\ IsErr(lastCall'.result)) => agg' = agg]_vars

\* No resolver call of the operation that led to the next state returned a
\* value above max_value.
AnswersInRange ==
    \A i \in 1..Len(lastCall'.reads) :
        HasValue(lastCall'.reads[i].answer) =>
            lastCall'.reads[i].answer.value.value <= agg.max_value

\* C33 as amended: the same, whatever the resolver answered among absent, an
\* error and any value at most max_value.
C33_ErrLeavesStateInRange ==
    [][(lastCall'.op \in AllOps /\ IsErr(lastCall'.result) /\ AnswersInRange) =>
           agg' = agg]_vars

\* A read_most_recent refused because the value read does not fit the
\* history: the delta and the history are as they were.
C33_Witness ==
    /\ IsDelta
    /\ lastCall.op = "read_most_recent"
    /\ IsErr(lastCall.result)
    /\ lastCall.reads # <<>>
    /\ HasValue(lastCall.reads[1].answer)
    /\ lastCall.reads[1].answer.value.value <= agg.max_value
    /\ agg.state.delta # Positive(0)
    /\ agg.state.speculative_start_value.tag = "LastCommittedValue"

\* C34: while the resolver returns only values in [0, max_value], no try_add
\* or try_sub returns a code-invariant error: the current value, the overflow
\* delta, the underflow delta and the new delta are all computed.
C34_NoInvariantErrorInRange ==
    [][(/\ lastCall'.op \in TryOps
        /\ AnswersInRange
        /\ StartIsSet => agg.state.speculative_start_value.value <= agg.max_value) =>
           lastCall'.result # code_invariant_error("Expected Ok")]_vars

\* A try_add refused at a negative delta: input + delta is computed and
\* recorded.
C34_Witness ==
    /\ IsDelta
    /\ lastCall.op = "try_add"
    /\ lastCall.result = OkBool(FALSE)
    /\ agg.state.delta = Negative(1)
    /\ agg.state.speculative_start_value.value <= agg.max_value
    /\ agg.state.history.min_overflow_positive_delta = Some(1)

\* How far the start value is: Unset, LastCommittedValue, AggregatedValue.
Stage(start) ==
    IF start.tag = "Unset" THEN 0 ELSE IF start.tag = "LastCommittedValue" THEN 1 ELSE 2

\* C35: a Delta aggregator stays Delta; its start value never goes back from
\* AggregatedValue to LastCommittedValue or from either to Unset; and a start
\* value that is set changes only by becoming AggregatedValue from
\* LastCommittedValue.
C35_LifecycleMovesForward ==
    [][IsDelta =>
           LET old == agg.state.speculative_start_value
               new == agg'.state.speculative_start_value
           IN  /\ IsDelta'
               /\ Stage(new) >= Stage(old)
               /\ (Stage(old) > 0 /\ new # old) =>
                      (Stage(old) = 1 /\ Stage(new) = 2)]_vars

\* A read_most_recent that takes the start value from LastCommittedValue to
\* AggregatedValue, the delta not being 0.
C35_Witness ==
    /\ Aggregated
    /\ lcReads = 1
    /\ lastCall.op = "read_most_recent"
    /\ lastCall.reads # <<>>
    /\ IsOk(lastCall.result)
    /\ agg.state.delta # Positive(0)

\* No V1 id is in new_aggregators while its state key is in
\* destroyed_aggregators.
Disjoint(d) ==
    \A id \in d.new_aggregators :
        id.version = "V1" => id.key \notin d.destroyed_aggregators

\* C36 as stated: after any sequence of get_aggregator, create_new_aggregator
\* and remove_aggregator_v1 calls, no V1 id is in new_aggregators while its
\* state key is in destroyed_aggregators.
C36_NewAndDestroyedDisjoint == Disjoint(data)

\* C36 as amended: the same after any sequence of calls in which
\* create_new_aggregator is not called on an id whose state key is in
\* destroyed_aggregators: every other call keeps the two sets disjoint.
C36_DisjointUnlessRecreated ==
    [][(/\ Disjoint(data)
        /\ ~(/\ lastData'.op = "create_new_aggregator"
             /\ lastData'.args.id.key \in data.destroyed_aggregators)) =>
           Disjoint(data')]_vars

\* An aggregator created, removed and removed again: its state key is in
\* destroyed_aggregators and it is no longer in new_aggregators.
C36_Witness ==
    /\ lastData.op = "remove_aggregator_v1"
    /\ ~lastData.args.registered
    /\ ~lastData.args.new
    /\ data.destroyed_aggregators = {1}
    /\ data.new_aggregators = {V2(1)}
    /\ Disjoint(data)

\* A snapshot call that returned an error on an id not registered under V2.
SnapshotRefused ==
    /\ SnapshotCall
    /\ ~SourceRegistered
    /\ IsErr(lastData'.result)

\* C37 as stated: a snapshot(id) call that fails because id is not registered
\* leaves the snapshots, the aggregators, new_aggregators,
\* destroyed_aggregators and id_counter as they were.
C37_RefusedSnapshotChangesNothing ==
    [][SnapshotRefused => data' = data]_vars

\* C37 as amended: such a call leaves the snapshots, the aggregators,
\* new_aggregators and destroyed_aggregators as they were; id_counter is the
\* one generate_id left, one more than before (0 after the largest u64).
C37_RefusedSnapshotMovesCounterOnly ==
    [][SnapshotRefused =>
           /\ data'.aggregator_snapshots = data.aggregator_snapshots
           /\ data'.aggregators = data.aggregators
           /\ data'.new_aggregators = data.new_aggregators
           /\ data'.destroyed_aggregators = data.destroyed_aggregators
           /\ data'.id_counter = (data.id_counter + 1) % (U64Max + 1)]_vars

\* snapshot(1) refused while a V1 aggregator is new and no snapshot exists:
\* the counter is at 1.
C37_Witness ==
    /\ lastData.op = "snapshot"
    /\ IsErr(lastData.result)
    /\ data.id_counter = 1
    /\ data.new_aggregators = {V1(1)}
    /\ DOMAIN data.aggregator_snapshots = {}
====
